---- MODULE Spec2Model ----
(***************************************************************************)
(* State-machine model of the brewops backend: the supply ledger           *)
(* (supply_records), the stock pool (inventory), the payment reconciler    *)
(* (payments) and the supplier directory (users), as the request handlers  *)
(* of the repository read and write them.                                  *)
(*                                                                         *)
(* Every handler is an async function; each awaited store call is one      *)
(* step, and handlers of different requests interleave between steps.      *)
(* Quantities and amounts are whole numbers of the smallest unit of the    *)
(* DECIMAL(10,2) columns; time is in milliseconds.                         *)
(***************************************************************************)
EXTENDS Integers, Sequences, FiniteSets, TLC

(* ------------------------------ bounds --------------------------------- *)

\* request slots that may be in flight at once
NProcs == 2

\* supply_records rows ever inserted
MaxRec == 2

\* largest quantity a request may name
MaxQty == 2

\* inventory rows ever inserted
MaxLots == 2

\* users rows ever inserted
MaxUsers == 2

\* payments rows ever inserted
MaxPay == 2

\* production records
MaxProd == 2

Procs == 1..NProcs

RecIds == 1..MaxRec

PayIds == 1..MaxPay

(* --------------------------- program constants ------------------------- *)

\* (1000 * 60) * 15: the edit window of timeDifference > 15, in milliseconds
EditWindowMs == 900000

\* the instants the clock visits: around creation and around the window's end
TimePoints == {0, 1, EditWindowMs - 1, EditWindowMs, EditWindowMs + 1, EditWindowMs + 2}

\* INTERVAL 6 MONTH; the sweep's clock counts months
SixMonths == 6

\* the instants the sweep's clock visits
SweepTimes == {0, SixMonths, SixMonths + 1}

\* the supply_date values a request may name
SupplyDates == {0, 1, SixMonths + 1}

UserIds == 1..MaxUsers

\* generateSupplyId names a record after the minute it is created in
MinuteMs == 60000

\* instants within one minute and in the next
MinuteTimes == {0, 1, MinuteMs}

\* 10 * 60 * 1000: the lifetime of an OTP, ms
TenMinutes == 600000

\* instants around the expiry of an OTP issued at 0
OtpTimes == {0, 1, TenMinutes, TenMinutes + 1}

\* `SUP-${year}${month}${day}-${hours}${minutes}`: the minute of instant t
baseId(t) == [base |-> t \div MinuteMs, suffix |-> 0]

\* the supply_id of a row that does not exist
NoSupplyId == [base |-> 0 - 1, suffix |-> 0]

\* a supply_records row that does not exist (never inserted, or deleted)
NoRow ==
    [exists |-> FALSE, supply_id |-> NoSupplyId, supplier_id |-> 0, quantity_kg |-> 0,
     remaining_quantity_kg |-> 0, unit_price |-> 0, total_payment |-> 0,
     payment_status |-> "unpaid", supply_date |-> 0, created_at |-> 0]

\* users.supplier_id NULL
NullId == [num |-> 0, digits |-> 0]

\* `SUP${n.toString().padStart(6, "0")}`: the number and how many digits follow SUP
formatSupplierId(n) == [num |-> n, digits |-> IF n < 1000000 THEN 6 ELSE 7]

\* supplier_id REGEXP '^SUP[0-9]{6}$'
matchesSupplierId(sid) == sid.digits = 6

\* a users row that does not exist
NoUser ==
    [exists |-> FALSE, role |-> "none", status |-> "none", supplier_id |-> NullId,
     created_at |-> 0]

\* a payments row that does not exist
NoPayment ==
    [exists |-> FALSE, supply_record_id |-> 0, supplier_id |-> 0, amount |-> 0,
     payment_status |-> "none", created_at |-> 0]

VARIABLES
    now,        \* wall clock (new Date(), NOW()), ms
    users,      \* table users: id -> row
    nextUser,   \* AUTO_INCREMENT of users
    payments,   \* table payments: id -> row
    nextPayment,\* AUTO_INCREMENT of payments
    supply,     \* table supply_records: id -> row
    nextSupply, \* AUTO_INCREMENT of supply_records
    inventory,  \* table inventory: sequence of rows, in insertion order
    production, \* table production_data: sequence of rows, in insertion order
    server,     \* the server process: its start-up and its daily timer
    proc,       \* per request slot: position in its handler and its locals
    ledger,     \* history: quantities supplied so far and reported as deducted,
                \* the numbers of the ids generateSupplierId has returned, and
                \* the quantity put into inventory lots so far
    password_resets \* table password_resets: sequence of rows, in insertion order

vars ==
    <<now, users, nextUser, payments, nextPayment, supply, nextSupply, inventory,
      production, server, proc, ledger, password_resets>>

(* ------------------------------ helpers -------------------------------- *)

Min(a, b) == IF a < b THEN a ELSE b

RECURSIVE SumOver(_, _)
\* Array.prototype.reduce((sum, x) => sum + f(x), 0) over a set of keys
SumOver(S, f) ==
    IF S = {} THEN 0
    ELSE LET x == CHOOSE y \in S : TRUE IN f[x] + SumOver(S \ {x}, f)

ExistingRecs(sr) == {i \in RecIds : sr[i].exists}

\* allSupplyRecords.reduce((sum, record) => sum + (parseFloat(record.quantity_kg) || 0), 0)
totalSupplyAvailable(sr) ==
    SumOver(ExistingRecs(sr), [i \in RecIds |-> sr[i].quantity_kg])

RECURSIVE SumSeq(_)
SumSeq(s) == IF s = <<>> THEN 0 ELSE Head(s) + SumSeq(Tail(s))

\* total quantity held by the rows of inventory
totalInventory(inv) == SumSeq([i \in 1..Len(inv) |-> inv[i].quantity])

\* the server once startServer has run: listening, the daily timer set; turn
\* alternates with every run of the sweep
ServerUp == [phase |-> "listening", timer |-> TRUE, last |-> "none", affected |-> 0, turn |-> 0]

\* the locals of a slot with no request
IdleProc ==
    [pc |-> "idle", op |-> "none", res |-> "none", id |-> 0, q |-> 0,
     price |-> 0, total |-> 0, snap |-> <<>>, rem |-> 0, diff |-> 0,
     nextNumber |-> 0, attempts |-> 0, supplierId |-> NullId, counter |-> 0,
     rec |-> 0, out |-> <<>>, supplyId |-> NoSupplyId, keys |-> {}, st |-> "none", user |-> NoUser]

TypeOK ==
    /\ now \in TimePoints \cup SweepTimes \cup MinuteTimes \cup OtpTimes
    /\ nextSupply \in 1..(MaxRec + 1)
    /\ Len(inventory) <= MaxLots
    /\ \A p \in Procs : proc[p].pc \in
         {"idle", "done", "ci_insert", "ci_read", "ci_deduct", "cp_insert", "cp_deduct", "ui_find", "ui_write", "so_insert", "rp_valid", "rp_update", "rp_mark", "sr_gen", "sr_exists", "sr_insert", "bf_update", "us_gate", "us_write",
          "ds_gate", "ds_write", "gen_scan", "gen_exists", "ps_insert", "fa_update",
          "rs_update", "dp_mark", "cb_update", "cb_mark", "du_delete", "fp_sr"}
    /\ nextPayment \in 1..(MaxPay + 1)
    /\ nextUser \in 1..(MaxUsers + 1)

(* ------------------------------ the clock ------------------------------ *)

\* time passes: the clock moves on to a later instant of T
Tick(T) ==
    /\ \E t \in T : t > now /\ now' = t
    /\ UNCHANGED <<users, nextUser, payments, nextPayment, supply, nextSupply, inventory, production, server, proc, ledger, password_resets>>

\* a slot whose last response has been sent takes the next request; slots are
\* interchangeable, so a request takes the lowest free one
Free(p) == proc[p].pc \in {"idle", "done"}

CanStart(p) == Free(p) /\ \A o \in Procs : o < p => ~Free(o)

\* the handler of slot p responds with r; its other locals are gone
Done(p, r) ==
    [proc EXCEPT ![p] = [IdleProc EXCEPT !.pc = "done", !.op = proc[p].op, !.res = r,
                                         !.id = proc[p].id, !.q = proc[p].q,
                                         !.rem = proc[p].rem, !.diff = proc[p].diff,
                                         !.supplierId = proc[p].supplierId,
                                         !.out = proc[p].out]]

(* ----------------------------- supply ledger --------------------------- *)

\* SupplierModel.findById: a users row with that id and role = 'supplier'
findById(s) == users[s].exists /\ users[s].role = "supplier"

\* SupplierModel.supplyIdExists: SELECT id FROM supply_records WHERE supply_id = ?
supplyIdExists(supplyId) ==
    \E i \in RecIds : supply[i].exists /\ supply[i].supply_id = supplyId

RECURSIVE generateSupplyId(_, _)
\* SupplierModel.generateSupplyId run without interruption:
\* while (await this.supplyIdExists(supplyId)) { supplyId = `${baseId}-${counter}`; counter++ }
generateSupplyId(supplyId, counter) ==
    IF supplyIdExists(supplyId)
    THEN generateSupplyId([supplyId EXCEPT !.suffix = counter], counter + 1)
    ELSE supplyId

\* POST /supply-records with nothing else running between its store calls:
\* SupplierController.createSupplyRecord and SupplierModel.createSupplyRecord.
\* The INSERT names no remaining_quantity_kg, so the column takes its DEFAULT 0.
createSupplyRecordOn(p, s, q, pr, st, supply_date) ==
    /\ CanStart(p)
    /\ IF q = 0 \/ pr = 0
         THEN /\ proc' = [proc EXCEPT ![p] = [IdleProc EXCEPT !.pc = "done",
                                 !.op = "createSupplyRecord", !.res = "ValidationError"]]
              /\ UNCHANGED <<supply, nextSupply, ledger, password_resets>>
         ELSE IF ~findById(s)
         THEN /\ proc' = [proc EXCEPT ![p] = [IdleProc EXCEPT !.pc = "done",
                                 !.op = "createSupplyRecord", !.res = "InvalidSupplier"]]
              /\ UNCHANGED <<supply, nextSupply, ledger, password_resets>>
         ELSE /\ nextSupply <= MaxRec
              /\ supply' = [supply EXCEPT ![nextSupply] =
                    [exists |-> TRUE, supply_id |-> generateSupplyId(baseId(now), 1),
                     supplier_id |-> s, quantity_kg |-> q,
                     remaining_quantity_kg |-> 0, unit_price |-> pr,
                     total_payment |-> q * pr, payment_status |-> st,
                     supply_date |-> supply_date, created_at |-> now]]
              /\ nextSupply' = nextSupply + 1
              /\ ledger' = [ledger EXCEPT !.supplied = @ + q]
              /\ proc' = [proc EXCEPT ![p] = [IdleProc EXCEPT !.pc = "done",
                                 !.op = "createSupplyRecord", !.res = "created",
                                 !.id = nextSupply]]
    /\ UNCHANGED <<now, users, nextUser, payments, nextPayment, inventory, production, server, password_resets>>

\* the same request with today as its supply_date
createSupplyRecord(p, s, q, pr, st) == createSupplyRecordOn(p, s, q, pr, st, now)

\* createSupplyRecord requests between their first store call and their INSERT
CreatingRecords ==
    Cardinality({p \in Procs : proc[p].pc \in {"sr_gen", "sr_exists", "sr_insert"}})

\* POST /supply-records, store call by store call. First the controller:
\* validation, then SupplierModel.findById
createSupplyRecord_find(p, s, q, pr) ==
    /\ CanStart(p)
    /\ LET me == [IdleProc EXCEPT !.op = "createSupplyRecord", !.q = q, !.price = pr,
                                  !.rec = s]
       IN IF q = 0 \/ pr = 0
          THEN proc' = [proc EXCEPT ![p] =
                  [me EXCEPT !.pc = "done", !.res = "ValidationError"]]
          ELSE IF ~findById(s)
          THEN proc' = [proc EXCEPT ![p] =
                  [me EXCEPT !.pc = "done", !.res = "InvalidSupplier"]]
          ELSE /\ nextSupply + CreatingRecords <= MaxRec
               /\ proc' = [proc EXCEPT ![p] = [me EXCEPT !.pc = "sr_gen"]]
    /\ UNCHANGED <<now, users, nextUser, payments, nextPayment, supply, nextSupply, inventory, production, server, ledger, password_resets>>

\* generateSupplyId: baseId from new Date(); supplyId = baseId; counter = 1
generateSupplyId_base(p) ==
    /\ proc[p].pc = "sr_gen"
    /\ proc' = [proc EXCEPT ![p].pc = "sr_exists", ![p].supplyId = baseId(now),
                            ![p].counter = 1]
    /\ UNCHANGED <<now, users, nextUser, payments, nextPayment, supply, nextSupply, inventory, production, server, ledger, password_resets>>

\* one test of while (await this.supplyIdExists(supplyId)): a taken id gets the
\* next suffix, a free one is returned
generateSupplyId_exists(p) ==
    /\ proc[p].pc = "sr_exists"
    /\ IF supplyIdExists(proc[p].supplyId)
       THEN proc' = [proc EXCEPT ![p].supplyId.suffix = proc[p].counter,
                                 ![p].counter = proc[p].counter + 1]
       ELSE proc' = [proc EXCEPT ![p].pc = "sr_insert"]
    /\ UNCHANGED <<now, users, nextUser, payments, nextPayment, supply, nextSupply, inventory, production, server, ledger, password_resets>>

\* catch (error) { throw new Error("Failed to create supply record") }, which
\* the controller answers with 500
createSupplyRecord_catch(error) == "Failed"

\* INSERT INTO supply_records (supply_id, ...): supply_id is UNIQUE NOT NULL, so
\* a supply_id that is taken by now makes the INSERT fail
createSupplyRecord_insert(p) ==
    /\ proc[p].pc = "sr_insert"
    /\ IF supplyIdExists(proc[p].supplyId)
       THEN /\ proc' = Done(p, createSupplyRecord_catch("ER_DUP_ENTRY"))
            /\ UNCHANGED <<supply, nextSupply, ledger, password_resets>>
       ELSE /\ supply' = [supply EXCEPT ![nextSupply] =
                  [exists |-> TRUE, supply_id |-> proc[p].supplyId,
                   supplier_id |-> proc[p].rec, quantity_kg |-> proc[p].q,
                   remaining_quantity_kg |-> 0, unit_price |-> proc[p].price,
                   total_payment |-> proc[p].q * proc[p].price,
                   payment_status |-> "unpaid",
                   supply_date |-> now, created_at |-> now]]
            /\ nextSupply' = nextSupply + 1
            /\ ledger' = [ledger EXCEPT !.supplied = @ + proc[p].q]
            /\ proc' = [Done(p, "created") EXCEPT ![p].id = nextSupply]
    /\ UNCHANGED <<now, users, nextUser, payments, nextPayment, inventory, production, server, password_resets>>

\* createTables at process start: UPDATE supply_records
\* SET remaining_quantity_kg = quantity_kg WHERE remaining_quantity_kg = 0
createTables ==
    /\ supply' = [i \in RecIds |->
          IF supply[i].exists /\ supply[i].remaining_quantity_kg = 0
          THEN [supply[i] EXCEPT !.remaining_quantity_kg = supply[i].quantity_kg]
          ELSE supply[i]]
    /\ supply' # supply
    /\ UNCHANGED <<now, users, nextUser, payments, nextPayment, nextSupply, inventory, production, server, proc, ledger, password_resets>>

\* a window that closes at the 15th minute itself
WindowExpired_atLeast(currentTime, createdAt) == currentTime - createdAt >= EditWindowMs

\* timeDifference > 15, with timeDifference = (currentTime - createdAt) / (1000 * 60)
WindowExpired(currentTime, createdAt) == currentTime - createdAt > EditWindowMs

\* the fields of a supply record a request body can name
BodyKeys == {"quantity", "unit_price", "payment_status"}

\* PUT /supply-records/:id, SupplierController.updateSupplyRecord. The body
\* names the fields of keys, with the values q, pr and st. If quantity or
\* unit_price is given and truthy the record is looked up (404 when absent) and
\* total_payment = (quantity || current quantity_kg) * (unit_price || current
\* unit_price) joins the body; otherwise the body goes to the model as it is
updateSupplyRecord_find(p, id, keys, q, pr, st) ==
    /\ CanStart(p)
    /\ LET quantityGiven == "quantity" \in keys /\ q # 0
           priceGiven == "unit_price" \in keys /\ pr # 0
           me == [IdleProc EXCEPT !.op = "updateSupplyRecord", !.id = id, !.keys = keys,
                     !.q = IF "quantity" \in keys THEN q ELSE 0,
                     !.price = IF "unit_price" \in keys THEN pr ELSE 0,
                     !.st = IF "payment_status" \in keys THEN st ELSE "none"]
       IN IF ~(quantityGiven \/ priceGiven)
          THEN proc' = [proc EXCEPT ![p] = [me EXCEPT !.pc = "us_gate"]]
          ELSE IF ~supply[id].exists
          THEN proc' = [proc EXCEPT ![p] = [IdleProc EXCEPT !.pc = "done",
                          !.op = "updateSupplyRecord", !.res = "NotFound", !.id = id]]
          ELSE LET quantity == IF quantityGiven THEN q ELSE supply[id].quantity_kg
                   unit_price == IF priceGiven THEN pr ELSE supply[id].unit_price
               IN proc' = [proc EXCEPT ![p] =
                     [me EXCEPT !.pc = "us_gate", !.total = quantity * unit_price,
                                !.keys = keys \cup {"total_payment"}]]
    /\ UNCHANGED <<now, users, nextUser, payments, nextPayment, supply, nextSupply, inventory, production, server, ledger, password_resets>>

\* SupplierModel.updateSupplyRecord, catch (error):
\* throw new Error(error.message || "Failed to update supply record")
updateSupplyRecord_catch(message) == message

\* SupplierModel.deleteSupplyRecord, catch (error):
\* throw new Error("Failed to delete supply record")
deleteSupplyRecord_catch(message) == "Failed"

\* SupplierModel.updateSupplyRecord: SELECT id, created_at, then the window check
\* against new Date()
updateSupplyRecord_gate(p) ==
    /\ proc[p].pc = "us_gate"
    /\ LET id == proc[p].id
           me == [proc EXCEPT ![p].diff = now - supply[id].created_at]
       IN IF ~supply[id].exists
          THEN proc' = Done(p, updateSupplyRecord_catch("NotFound"))
          ELSE IF WindowExpired(now, supply[id].created_at)
          THEN proc' = [me EXCEPT ![p].pc = "done", ![p].snap = <<>>, ![p].price = 0,
                          ![p].total = 0, ![p].keys = {}, ![p].st = "none",
                          ![p].res = updateSupplyRecord_catch("EditWindowExpired")]
          ELSE IF proc[p].keys = {}
          THEN proc' = Done(p, updateSupplyRecord_catch("NoFields"))
          ELSE proc' = [me EXCEPT ![p].pc = "us_write"]
    /\ UNCHANGED <<now, users, nextUser, payments, nextPayment, supply, nextSupply, inventory, production, server, ledger, password_resets>>

\* SupplierModel.updateSupplyRecord: UPDATE supply_records SET <fields> WHERE id = ?,
\* one field for every key of the body, quantity being written to quantity_kg
updateSupplyRecord_write(p) ==
    /\ proc[p].pc = "us_write"
    /\ LET id == proc[p].id
           keys == proc[p].keys
       IN IF ~supply[id].exists
          THEN /\ proc' = Done(p, updateSupplyRecord_catch("NotFound"))
               /\ UNCHANGED supply
          ELSE /\ supply' = [supply EXCEPT
                    ![id].quantity_kg = IF "quantity" \in keys THEN proc[p].q ELSE @,
                    ![id].unit_price = IF "unit_price" \in keys THEN proc[p].price ELSE @,
                    ![id].total_payment = IF "total_payment" \in keys THEN proc[p].total ELSE @,
                    ![id].payment_status = IF "payment_status" \in keys THEN proc[p].st ELSE @]
               /\ proc' = Done(p, "ok")
    /\ UNCHANGED <<now, users, nextUser, payments, nextPayment, nextSupply, inventory, production, server, ledger, password_resets>>

\* SupplierController.deleteSupplyRecord: findSupplyRecordById, 404 when absent
deleteSupplyRecord_find(p, id) ==
    /\ CanStart(p)
    /\ LET me == [IdleProc EXCEPT !.op = "deleteSupplyRecord", !.id = id] IN
         IF ~supply[id].exists
         THEN proc' = [proc EXCEPT ![p] = [me EXCEPT !.pc = "done", !.res = "NotFound"]]
         ELSE proc' = [proc EXCEPT ![p] = [me EXCEPT !.pc = "ds_gate"]]
    /\ UNCHANGED <<now, users, nextUser, payments, nextPayment, supply, nextSupply, inventory, production, server, ledger, password_resets>>

\* SupplierModel.deleteSupplyRecord: SELECT id, created_at, then the window check
\* against new Date()
deleteSupplyRecord_gate(p) ==
    /\ proc[p].pc = "ds_gate"
    /\ LET id == proc[p].id
           me == [proc EXCEPT ![p].diff = now - supply[id].created_at]
       IN IF ~supply[id].exists
          THEN proc' = Done(p, deleteSupplyRecord_catch("NotFound"))
          ELSE IF WindowExpired(now, supply[id].created_at)
          THEN proc' = [me EXCEPT ![p].pc = "done",
                          ![p].res = deleteSupplyRecord_catch("EditWindowExpired")]
          ELSE proc' = [me EXCEPT ![p].pc = "ds_write"]
    /\ UNCHANGED <<now, users, nextUser, payments, nextPayment, supply, nextSupply, inventory, production, server, ledger, password_resets>>

\* SupplierModel.deleteSupplyRecord: DELETE FROM supply_records WHERE id = ?
deleteSupplyRecord_write(p) ==
    /\ proc[p].pc = "ds_write"
    /\ LET id == proc[p].id IN
         IF ~supply[id].exists
         THEN /\ proc' = Done(p, deleteSupplyRecord_catch("NotFound"))
              /\ UNCHANGED <<supply, payments, password_resets>>
         ELSE /\ supply' = [supply EXCEPT ![id] = NoRow]
              /\ payments' = [i \in PayIds |->
                    IF payments[i].supply_record_id = id THEN NoPayment ELSE payments[i]]
              /\ proc' = Done(p, "ok")
    /\ UNCHANGED <<now, users, nextUser, nextPayment, nextSupply, inventory, production, server, ledger, password_resets>>

(* ------------------------------ stock pool ----------------------------- *)

RECURSIVE PermSeqs(_)
\* every arrangement of the elements of S in a sequence
PermSeqs(S) ==
    IF S = {} THEN {<<>>}
    ELSE UNION {{<<x>> \o t : t \in PermSeqs(S \ {x})} : x \in S}

\* the rows sorted the other way round, newest first
sortedSupplyRecords_newestFirst(sr) ==
    {[i \in 1..Len(o) |-> [id |-> o[i], quantity_kg |-> sr[o[i]].quantity_kg]] :
        o \in {t \in PermSeqs(ExistingRecs(sr)) :
                 \A i, j \in 1..Len(t) :
                    i < j => sr[t[i]].created_at >= sr[t[j]].created_at}}

\* SupplierModel.findAllSupplyRecords followed by
\* allSupplyRecords.sort((a, b) => new Date(a.created_at) - new Date(b.created_at)):
\* the rows oldest first, rows of equal created_at in either order
sortedSupplyRecords(sr) ==
    {[i \in 1..Len(o) |-> [id |-> o[i], quantity_kg |-> sr[o[i]].quantity_kg]] :
        o \in {t \in PermSeqs(ExistingRecs(sr)) :
                 \A i, j \in 1..Len(t) :
                    i < j => sr[t[i]].created_at <= sr[t[j]].created_at}}

RECURSIVE SkipEmpty(_)
\* the loop passes over a record unless availableInRecord > 0
SkipEmpty(s) ==
    IF s = <<>> THEN s
    ELSE IF Head(s).quantity_kg > 0 THEN s ELSE SkipEmpty(Tail(s))

\* a pre-check that turns down a request only when there is no supply at all
InsufficientSupply_empty(total, quantity) == total = 0

\* if (totalSupplyAvailable < quantity) return 400 "Insufficient supply records"
InsufficientSupply(total, quantity) == total < quantity

\* a deduction that empties the record whatever is still to deduct
deductAmount_whole(availableInRecord, remainingToDeduct) == availableInRecord

\* const deductAmount = Math.min(availableInRecord, remainingToDeduct)
deductAmount(availableInRecord, remainingToDeduct) ==
    Min(availableInRecord, remainingToDeduct)

\* createInventory up to its first store call: the quantity is validated, all
\* supply records are read and their quantities summed
createInventory_precheck(p, quantity) ==
    /\ CanStart(p)
    /\ LET total == totalSupplyAvailable(supply)
           me == [IdleProc EXCEPT !.op = "createInventory", !.q = quantity, !.total = total]
       IN IF quantity = 0
          THEN proc' = [proc EXCEPT ![p] =
                  [me EXCEPT !.pc = "done", !.res = "ValidationError", !.total = 0]]
          ELSE IF InsufficientSupply(total, quantity)
          THEN proc' = [proc EXCEPT ![p] =
                  [me EXCEPT !.pc = "done", !.res = "InsufficientSupply", !.total = 0]]
          ELSE proc' = [proc EXCEPT ![p] = [me EXCEPT !.pc = "ci_insert"]]
    /\ UNCHANGED <<now, users, nextUser, payments, nextPayment, supply, nextSupply, inventory, production, server, ledger, password_resets>>

\* const maxRetries = 3
maxRetries == 3

\* Math.floor(Math.random() * 100): the values the suffix is drawn from
Suffixes == {0, 1}

\* `${generateInventoryId()}-${randomSuffix}`: INV-, the minute, the suffix
uniqueInventoryId(t, randomSuffix) == [base |-> t \div MinuteMs, suffix |-> randomSuffix]

\* the error pool.execute throws for an INSERT that breaks inventoryid ... UNIQUE:
\* a plain Error with code ER_DUP_ENTRY and message "Duplicate entry ... for key ...";
\* it has no parent
duplicateEntry ==
    [name |-> "Error", code |-> "ER_DUP_ENTRY", parent_code |-> "undefined",
     message |-> "Duplicate entry"]

\* error.name === "SequelizeUniqueConstraintError" ||
\* (error.parent && error.parent.code === "ER_DUP_ENTRY") ||
\* (error.message && error.message.includes("UNIQUE constraint failed"))
isUniqueConstraintError(error) ==
    \/ error.name = "SequelizeUniqueConstraintError"
    \/ error.parent_code = "ER_DUP_ENTRY"
    \/ error.message = "UNIQUE constraint failed"

\* InventoryModel.create: INSERT INTO inventory (inventoryid, quantity), inside
\* while (retryCount < maxRetries) { try { ... } catch (error) { retryCount++; ... } }.
\* An inventoryid that is taken makes the INSERT fail; the catch retries on what
\* it takes for a uniqueness error and answers 500 otherwise
createInventory_insert(p, randomSuffix) ==
    /\ proc[p].pc = "ci_insert"
    /\ Len(inventory) < MaxLots
    /\ LET inventoryid == uniqueInventoryId(now, randomSuffix)
           retryCount == proc[p].attempts + 1
       IN IF \E i \in 1..Len(inventory) : inventory[i].inventoryid = inventoryid
          THEN /\ inventory' = inventory
               /\ ledger' = ledger
               /\ proc' = IF isUniqueConstraintError(duplicateEntry) /\ retryCount < maxRetries
                          THEN [proc EXCEPT ![p].attempts = retryCount]
                          ELSE Done(p, IF isUniqueConstraintError(duplicateEntry)
                                       THEN "UniqueIdFailed" ELSE "InternalError")
          ELSE /\ inventory' = Append(inventory, [inventoryid |-> inventoryid,
                                                  quantity |-> proc[p].q, createdAt |-> now])
               /\ ledger' = [ledger EXCEPT !.stocked = @ + proc[p].q]
               /\ proc' = [proc EXCEPT ![p].pc = "ci_read", ![p].id = Len(inventory) + 1]
    /\ UNCHANGED <<now, users, nextUser, payments, nextPayment, supply, nextSupply, production, server, password_resets>>

\* the second findAllSupplyRecords, sorted oldest first; remainingToDeduct = quantity
createInventory_read(p) ==
    /\ proc[p].pc = "ci_read"
    /\ \E s \in sortedSupplyRecords(supply) :
          proc' = [proc EXCEPT ![p].pc = "ci_deduct", ![p].snap = s, ![p].rem = proc[p].q]
    /\ UNCHANGED <<now, users, nextUser, payments, nextPayment, supply, nextSupply, inventory, production, server, ledger, password_resets>>

\* one turn of the FIFO loop that reaches the store:
\* UPDATE supply_records SET quantity_kg = newQuantity WHERE id = record.id,
\* with newQuantity computed from the row as it was read
createInventory_deduct(p) ==
    /\ proc[p].pc = "ci_deduct"
    /\ proc[p].rem > 0
    /\ SkipEmpty(proc[p].snap) # <<>>
    /\ LET s == SkipEmpty(proc[p].snap)
           record == Head(s)
           availableInRecord == record.quantity_kg
           amount == deductAmount(availableInRecord, proc[p].rem)
           newQuantity == availableInRecord - amount
       IN /\ supply' = IF supply[record.id].exists
                       THEN [supply EXCEPT ![record.id].quantity_kg = newQuantity]
                       ELSE supply
          /\ proc' = [proc EXCEPT ![p].snap = Tail(s), ![p].rem = proc[p].rem - amount]
    /\ UNCHANGED <<now, users, nextUser, payments, nextPayment, nextSupply, inventory, production, server, ledger, password_resets>>

\* the loop has ended (nothing left to deduct, or no record left): 201 with
\* supplyDeducted = parseFloat(quantity) - remainingToDeduct
createInventory_respond(p) ==
    /\ proc[p].pc = "ci_deduct"
    /\ proc[p].rem <= 0 \/ SkipEmpty(proc[p].snap) = <<>>
    /\ proc' = Done(p, "created")
    /\ ledger' = [ledger EXCEPT !.reported = @ + (proc[p].q - proc[p].rem)]
    /\ UNCHANGED <<now, users, nextUser, payments, nextPayment, supply, nextSupply, inventory, production, server, password_resets>>

\* InventoryModel.findAll followed by
\* allInventory.sort((a, b) => new Date(a.createdAt) - new Date(b.createdAt)):
\* the lots oldest first, lots of equal createdAt in either order
sortedInventory(inv) ==
    {[i \in 1..Len(o) |-> [id |-> o[i], quantity_kg |-> inv[o[i]].quantity]] :
        o \in {t \in PermSeqs(1..Len(inv)) :
                 \A i, j \in 1..Len(t) :
                    i < j => inv[t[i]].createdAt <= inv[t[j]].createdAt}}

\* a pre-check that turns down a request only when there is no inventory at all
InsufficientInventory_empty(totalAvailable, quantityNum) == totalAvailable = 0

\* if (totalAvailable < quantityNum) return 400 "Insufficient inventory. ..."
InsufficientInventory(totalAvailable, quantityNum) == totalAvailable < quantityNum

\* createProduction requests in flight
Producing == Cardinality({p \in Procs : proc[p].pc \in {"cp_insert", "cp_deduct"}})

\* createProduction up to its first store call: the quantity is validated, all
\* inventory lots are read with InventoryModel.findAll and their quantities
\* summed; the rows read here are the ones the FIFO loop goes through later
createProduction_precheck(p, quantity) ==
    /\ CanStart(p)
    /\ Len(production) + Producing < MaxProd
    /\ LET totalAvailable == totalInventory(inventory)
           me == [IdleProc EXCEPT !.op = "createProduction", !.q = quantity]
       IN IF quantity <= 0
          THEN proc' = [proc EXCEPT ![p] =
                  [me EXCEPT !.pc = "done", !.res = "ValidationError"]]
          ELSE IF InsufficientInventory(totalAvailable, quantity)
          THEN proc' = [proc EXCEPT ![p] =
                  [me EXCEPT !.pc = "done", !.res = "InsufficientInventory"]]
          ELSE \E s \in sortedInventory(inventory) :
                  proc' = [proc EXCEPT ![p] =
                     [me EXCEPT !.pc = "cp_insert", !.total = totalAvailable, !.snap = s]]
    /\ UNCHANGED <<now, users, nextUser, payments, nextPayment, supply, nextSupply, inventory, production, server, ledger, password_resets>>

\* ProductionModel.create: INSERT INTO production_data; remainingToDeduct = quantityNum
createProduction_insert(p) ==
    /\ proc[p].pc = "cp_insert"
    /\ production' = Append(production, [quantity |-> proc[p].q])
    /\ proc' = [proc EXCEPT ![p].pc = "cp_deduct", ![p].id = Len(production) + 1,
                            ![p].rem = proc[p].q]
    /\ UNCHANGED <<now, users, nextUser, payments, nextPayment, supply, nextSupply, inventory, server, ledger, password_resets>>

\* one turn of the FIFO loop that reaches the store:
\* InventoryModel.updateById(item.id, { quantity: newQuantity }), with
\* newQuantity computed from the lot as the pre-check read it
createProduction_deduct(p) ==
    /\ proc[p].pc = "cp_deduct"
    /\ proc[p].rem > 0
    /\ SkipEmpty(proc[p].snap) # <<>>
    /\ LET s == SkipEmpty(proc[p].snap)
           item == Head(s)
           availableInItem == item.quantity_kg
           amount == deductAmount(availableInItem, proc[p].rem)
           newQuantity == availableInItem - amount
       IN /\ inventory' = [inventory EXCEPT ![item.id].quantity = newQuantity]
          /\ proc' = [proc EXCEPT ![p].snap = Tail(s), ![p].rem = proc[p].rem - amount]
    /\ UNCHANGED <<now, users, nextUser, payments, nextPayment, supply, nextSupply, production, server, ledger, password_resets>>

\* the loop has ended: 201 with inventoryDeducted: quantityNum and
\* remainingInventory: totalAvailable - quantityNum
createProduction_respond(p) ==
    /\ proc[p].pc = "cp_deduct"
    /\ proc[p].rem <= 0 \/ SkipEmpty(proc[p].snap) = <<>>
    /\ proc' = [Done(p, "created") EXCEPT ![p].total = proc[p].total - proc[p].q]
    /\ UNCHANGED <<now, users, nextUser, payments, nextPayment, supply, nextSupply, inventory, production, server, ledger, password_resets>>

\* the quantities a manager inventory payload may carry in quantity_kg
RawQuantities == {0 - 1, 0, 1, MaxQty}

\* a validator that lets every payload through
validateInventoryData_any(rawQty) == TRUE

\* validateInventoryData: the payload goes on to the controller unless
\* rawQty is missing, not a number or quantity <= 0 ("Quantity must be a positive number")
validateInventoryData(rawQty) == ~(rawQty <= 0)

\* POST /api/manager/inventory: validateInventoryData, then
\* req.body = { quantity: quantity_kg } and createInventory
postInventory(p, rawQty) ==
    IF validateInventoryData(rawQty)
    THEN createInventory_precheck(p, rawQty)
    ELSE /\ CanStart(p)
         /\ proc' = [proc EXCEPT ![p] =
               [IdleProc EXCEPT !.pc = "done", !.op = "createInventory",
                                !.res = "ValidationFailed"]]
         /\ UNCHANGED <<now, users, nextUser, payments, nextPayment, supply, nextSupply, inventory, production, server, ledger, password_resets>>

\* PUT /api/manager/inventory/:id: validateInventoryData, then
\* SELECT id, inventoryid FROM inventory WHERE id = ? (404 when there is none) and
\* req.body = { inventoryid: inventoryid || existingItem[0].inventoryid, quantity: quantity_kg }
putInventory(p, id, rawQty) ==
    /\ CanStart(p)
    /\ LET me == [IdleProc EXCEPT !.op = "updateInventory", !.id = id]
       IN proc' = [proc EXCEPT ![p] =
             IF ~validateInventoryData(rawQty)
             THEN [me EXCEPT !.pc = "done", !.res = "ValidationFailed"]
             ELSE IF id > Len(inventory)
             THEN [me EXCEPT !.pc = "done", !.res = "NotFound"]
             ELSE [me EXCEPT !.pc = "ui_find", !.q = rawQty]]
    /\ UNCHANGED <<now, users, nextUser, payments, nextPayment, supply, nextSupply, inventory, production, server, ledger, password_resets>>

\* updateInventory up to its write: if (!quantity) 400; InventoryModel.findById
\* (404 when there is none); if (diffMinutes > 15) 403
updateInventory_find(p) ==
    /\ proc[p].pc = "ui_find"
    /\ proc' = IF proc[p].q = 0 THEN Done(p, "ValidationError")
               ELSE IF proc[p].id > Len(inventory) THEN Done(p, "NotFound")
               ELSE IF now - inventory[proc[p].id].createdAt > EditWindowMs
               THEN Done(p, "WindowExpired")
               ELSE [proc EXCEPT ![p].pc = "ui_write"]
    /\ UNCHANGED <<now, users, nextUser, payments, nextPayment, supply, nextSupply, inventory, production, server, ledger, password_resets>>

\* InventoryModel.updateById(req.params.id, updateData):
\* UPDATE inventory SET quantity = ?, inventoryid = ? WHERE id = ?; the
\* inventoryid written is the one the route read from the lot, which no request changes
updateInventory_write(p) ==
    /\ proc[p].pc = "ui_write"
    /\ inventory' = [inventory EXCEPT ![proc[p].id].quantity = proc[p].q]
    /\ proc' = Done(p, "ok")
    /\ UNCHANGED <<now, users, nextUser, payments, nextPayment, supply, nextSupply, production, server, ledger, password_resets>>

(* --------------------------- supplier directory ------------------------ *)

\* the loop bound of generateSupplierId: while (attempts < 10)
MaxAttempts == 10

\* users rows WHERE role = 'supplier'
Suppliers(us) == {u \in UserIds : us[u].exists /\ us[u].role = "supplier"}

RECURSIVE AscSeq(_)
\* the ids of S in ascending order (ORDER BY id ASC)
AscSeq(S) ==
    IF S = {} THEN <<>>
    ELSE LET m == CHOOSE x \in S : \A y \in S : x <= y IN <<m>> \o AscSeq(S \ {m})

RECURSIVE DescSeq(_)
\* the ids of S, latest first (ORDER BY created_at DESC)
DescSeq(S) ==
    IF S = {} THEN <<>>
    ELSE LET m == CHOOSE x \in S : \A y \in S : x >= y IN <<m>> \o DescSeq(S \ {m})

\* the highest number among the supplier ids matching SUP and 6 digits, 0 if none
maxNumber(us) ==
    LET rows == {u \in Suppliers(us) :
                    us[u].supplier_id # NullId /\ matchesSupplierId(us[u].supplier_id)}
        nums == {us[u].supplier_id.num : u \in rows}
    IN IF nums = {} THEN 0 ELSE CHOOSE n \in nums : \A m \in nums : m <= n

\* SupplierModel.supplierIdExists: SELECT id FROM users WHERE supplier_id = ? AND role = 'supplier'
supplierIdExists(sid) == \E u \in Suppliers(users) : users[u].supplier_id = sid

\* `SUP${Date.now().toString().slice(-6)}`
fallbackId == [num |-> now % 1000000, digits |-> 6]

\* the POST /suppliers requests that have not inserted their row yet
Creating == Cardinality({p \in Procs : proc[p].op = "postSuppliers" /\ ~Free(p)})

\* POST /users (admin) and POST /register: db.createUser with supplier_id: null
createUser(p, role) ==
    /\ CanStart(p)
    /\ nextUser + Creating <= MaxUsers
    /\ users' = [users EXCEPT ![nextUser] =
          [exists |-> TRUE, role |-> role, status |-> "active", supplier_id |-> NullId,
           created_at |-> now]]
    /\ nextUser' = nextUser + 1
    /\ proc' = [proc EXCEPT ![p] = [IdleProc EXCEPT !.pc = "done", !.op = "createUser",
                                                    !.res = "created", !.id = nextUser]]
    /\ UNCHANGED <<now, payments, nextPayment, supply, nextSupply, inventory, production, server, ledger, password_resets>>

\* POST /suppliers up to the call of SupplierModel.generateSupplierId
postSuppliers_start(p) ==
    /\ CanStart(p)
    /\ nextUser + Creating <= MaxUsers
    /\ proc' = [proc EXCEPT ![p] = [IdleProc EXCEPT !.pc = "gen_scan",
                                                    !.op = "postSuppliers"]]
    /\ UNCHANGED <<now, users, nextUser, payments, nextPayment, supply, nextSupply, inventory, production, server, ledger, password_resets>>

\* generateSupplierId: the scan of the existing ids, nextNumber = maxNumber + 1
generateSupplierId_scan(p) ==
    /\ proc[p].pc = "gen_scan"
    /\ proc' = [proc EXCEPT ![p].pc = "gen_exists",
                            ![p].nextNumber = maxNumber(users) + 1,
                            ![p].attempts = 0]
    /\ UNCHANGED <<now, users, nextUser, payments, nextPayment, supply, nextSupply, inventory, production, server, ledger, password_resets>>

\* generateSupplierId: one turn of the retry loop, supplierIdExists on the
\* candidate; the tenth taken candidate throws and the catch returns fallbackId
generateSupplierId_exists(p) ==
    /\ proc[p].pc = "gen_exists"
    /\ LET supplierId == formatSupplierId(proc[p].nextNumber + proc[p].attempts)
           back == IF proc[p].op = "postSuppliers" THEN "ps_insert" ELSE "fa_update"
       IN IF ~supplierIdExists(supplierId)
          THEN /\ proc' = [proc EXCEPT ![p].pc = back, ![p].supplierId = supplierId,
                                       ![p].nextNumber = 0, ![p].attempts = 0]
               /\ ledger' = [ledger EXCEPT !.issued = @ \cup {supplierId.num}]
          ELSE IF proc[p].attempts + 1 < MaxAttempts
          THEN /\ proc' = [proc EXCEPT ![p].attempts = @ + 1]
               /\ ledger' = ledger
          ELSE /\ proc' = [proc EXCEPT ![p].pc = back, ![p].supplierId = fallbackId,
                                       ![p].nextNumber = 0, ![p].attempts = 0]
               /\ ledger' = [ledger EXCEPT !.issued = @ \cup {fallbackId.num}]
    /\ UNCHANGED <<now, users, nextUser, payments, nextPayment, supply, nextSupply, inventory, production, server, password_resets>>

\* POST /suppliers: INSERT INTO users (..., role, ..., supplier_id, status, ...)
postSuppliers_insert(p) ==
    /\ proc[p].pc = "ps_insert"
    /\ users' = [users EXCEPT ![nextUser] =
          [exists |-> TRUE, role |-> "supplier", status |-> "active",
           supplier_id |-> proc[p].supplierId, created_at |-> now]]
    /\ nextUser' = nextUser + 1
    /\ proc' = [Done(p, "created") EXCEPT ![p].id = nextUser]
    /\ UNCHANGED <<now, payments, nextPayment, supply, nextSupply, inventory, production, server, ledger, password_resets>>

\* SupplierModel.findAll: the SELECT of the suppliers; the rows without a
\* supplier_id are the ones the loop repairs
findAll_select(p) ==
    /\ CanStart(p)
    /\ LET rows == DescSeq({u \in Suppliers(users) : users[u].supplier_id = NullId})
           me == [IdleProc EXCEPT !.op = "findAll"]
       IN IF rows = <<>>
          THEN proc' = [proc EXCEPT ![p] = [me EXCEPT !.pc = "done", !.res = "ok"]]
          ELSE proc' = [proc EXCEPT ![p] = [me EXCEPT !.pc = "gen_scan", !.snap = rows]]
    /\ UNCHANGED <<now, users, nextUser, payments, nextPayment, supply, nextSupply, inventory, production, server, ledger, password_resets>>

\* SupplierModel.findAll: UPDATE users SET supplier_id = ? WHERE id = ? AND role = "supplier"
findAll_update(p) ==
    /\ proc[p].pc = "fa_update"
    /\ LET u == Head(proc[p].snap)
           rest == Tail(proc[p].snap)
       IN /\ users' = IF u \in Suppliers(users)
                      THEN [users EXCEPT ![u].supplier_id = proc[p].supplierId]
                      ELSE users
          /\ proc' = IF rest = <<>> THEN Done(p, "ok")
                     ELSE [proc EXCEPT ![p].pc = "gen_scan", ![p].snap = rest]
    /\ UNCHANGED <<now, nextUser, payments, nextPayment, supply, nextSupply, inventory, production, server, ledger, password_resets>>

\* SupplierModel.resetAllSupplierIds: SELECT id FROM users WHERE role = 'supplier'
\* ORDER BY id ASC, counter = 1
resetAllSupplierIds_select(p) ==
    /\ CanStart(p)
    /\ LET suppliers == AscSeq(Suppliers(users))
           me == [IdleProc EXCEPT !.op = "resetAllSupplierIds"]
       IN IF suppliers = <<>>
          THEN proc' = [proc EXCEPT ![p] = [me EXCEPT !.pc = "done", !.res = "ok"]]
          ELSE proc' = [proc EXCEPT ![p] = [me EXCEPT !.pc = "rs_update",
                                                      !.snap = suppliers, !.counter = 1]]
    /\ UNCHANGED <<now, users, nextUser, payments, nextPayment, supply, nextSupply, inventory, production, server, ledger, password_resets>>

\* SupplierModel.resetAllSupplierIds: one turn of the loop,
\* UPDATE users SET supplier_id = SUP<counter> WHERE id = ? AND role = 'supplier'
resetAllSupplierIds_update(p) ==
    /\ proc[p].pc = "rs_update"
    /\ LET u == Head(proc[p].snap)
           rest == Tail(proc[p].snap)
           newSupplierId == formatSupplierId(proc[p].counter)
       IN /\ users' = IF u \in Suppliers(users)
                      THEN [users EXCEPT ![u].supplier_id = newSupplierId]
                      ELSE users
          /\ proc' = IF rest = <<>> THEN Done(p, "ok")
                     ELSE [proc EXCEPT ![p].snap = rest, ![p].counter = @ + 1]
    /\ UNCHANGED <<now, nextUser, payments, nextPayment, supply, nextSupply, inventory, production, server, ledger, password_resets>>

\* `SUP${supplier.id.toString().padStart(4, "0")}`: the row id, padded to 4 digits
backfillId(id) ==
    [num |-> id,
     digits |-> IF id < 10000 THEN 4 ELSE IF id < 100000 THEN 5
                ELSE IF id < 1000000 THEN 6 ELSE 7]

\* updateSupplierIds: SELECT id, name FROM users WHERE role = 'supplier'
\* AND (supplier_id IS NULL OR supplier_id = '')
updateSupplierIds_select(p) ==
    /\ CanStart(p)
    /\ LET suppliers == AscSeq({u \in Suppliers(users) : users[u].supplier_id = NullId})
           me == [IdleProc EXCEPT !.op = "updateSupplierIds"]
       IN IF suppliers = <<>>
          THEN proc' = [proc EXCEPT ![p] = [me EXCEPT !.pc = "done", !.res = "ok"]]
          ELSE proc' = [proc EXCEPT ![p] = [me EXCEPT !.pc = "bf_update", !.snap = suppliers]]
    /\ UNCHANGED <<now, users, nextUser, payments, nextPayment, supply, nextSupply, inventory, production, server, ledger, password_resets>>

\* updateSupplierIds: one turn of the loop, UPDATE users SET supplier_id = ? WHERE id = ?
updateSupplierIds_update(p) ==
    /\ proc[p].pc = "bf_update"
    /\ LET u == Head(proc[p].snap)
           rest == Tail(proc[p].snap)
       IN /\ users' = IF users[u].exists
                      THEN [users EXCEPT ![u].supplier_id = backfillId(u)]
                      ELSE users
          /\ proc' = IF rest = <<>> THEN Done(p, "ok")
                     ELSE [proc EXCEPT ![p].snap = rest]
    /\ UNCHANGED <<now, nextUser, payments, nextPayment, supply, nextSupply, inventory, production, server, ledger, password_resets>>

(* --------------------------- deactivation sweep ------------------------ *)

\* PUT /users/:id/status: db.updateUserStatus, UPDATE users SET status = ? WHERE id = ?
updateUserStatus(p, u, status) ==
    /\ CanStart(p)
    /\ users' = IF users[u].exists THEN [users EXCEPT ![u].status = status] ELSE users
    /\ proc' = [proc EXCEPT ![p] = [IdleProc EXCEPT !.pc = "done", !.op = "updateUserStatus",
                                                    !.res = "ok", !.id = u]]
    /\ UNCHANGED <<now, nextUser, payments, nextPayment, supply, nextSupply, inventory, production, server, ledger, password_resets>>

\* SELECT DISTINCT supplier_id FROM supply_records
\* WHERE supply_date >= DATE_SUB(CURDATE(), INTERVAL 6 MONTH)
recent(u) ==
    \E i \in ExistingRecs(supply) :
        supply[i].supplier_id = u /\ supply[i].supply_date >= now - SixMonths

\* the WHERE of the sweep without its status test
sweepWhere_anyStatus(u) ==
    /\ users[u].exists
    /\ users[u].role = "supplier"
    /\ users[u].created_at <= now - SixMonths
    /\ ~recent(u)

\* WHERE u.role = 'supplier' AND u.status = 'active'
\*   AND u.created_at <= DATE_SUB(NOW(), INTERVAL 6 MONTH) AND recent.supplier_id IS NULL
sweepWhere(u) ==
    /\ users[u].exists
    /\ users[u].role = "supplier"
    /\ users[u].status = "active"
    /\ users[u].created_at <= now - SixMonths
    /\ ~recent(u)

\* an error of the sweep that leaves its caller's try block
caught_rethrown(ok) == ok

\* try { await SupplierModel.deactivateOldSuppliers() } catch (err) { console.error(...) }:
\* the caller goes on whether the run succeeded or not
caught(ok) == TRUE

\* SupplierModel.deactivateOldSuppliers: one UPDATE; ok = FALSE is a run whose
\* statement fails, which changes nothing and throws. up is the server as the
\* caller leaves it when it goes on; an error that is not caught ends the process
deactivateOldSuppliers(ok, up) ==
    LET hit == {u \in UserIds : sweepWhere(u)}
        after == IF caught(ok) THEN up
                 ELSE [up EXCEPT !.phase = "exited", !.timer = FALSE]
    IN IF ok
       THEN /\ users' = [u \in UserIds |->
                           IF u \in hit THEN [users[u] EXCEPT !.status = "inactive"]
                           ELSE users[u]]
            /\ server' = [after EXCEPT !.last = "ok", !.affected = Cardinality(hit),
                                       !.turn = 1 - @]
       ELSE /\ users' = users
            /\ server' = [after EXCEPT !.last = "failed", !.affected = 0,
                                       !.turn = 1 - @]

\* the process is started (again): nothing of the previous process is left
restart ==
    /\ server.phase \in {"listening", "exited"}
    /\ \A p \in Procs : Free(p)
    /\ server' = [phase |-> "init", timer |-> FALSE, last |-> "none", affected |-> 0,
                  turn |-> server.turn]
    /\ proc' = [p \in Procs |-> IdleProc]
    /\ UNCHANGED <<now, users, nextUser, payments, nextPayment, supply, nextSupply, inventory, production, ledger, password_resets>>

\* startServer: await initializeDatabase(); a failure ends in process.exit(1)
startServer_init(ok) ==
    /\ server.phase = "init"
    /\ server' = [server EXCEPT !.phase = IF ok THEN "sweep" ELSE "exited"]
    /\ UNCHANGED <<now, users, nextUser, payments, nextPayment, supply, nextSupply, inventory, production, proc, ledger, password_resets>>

\* startServer: the sweep at startup inside its own try/catch, then setInterval
\* and server.listen
startServer_sweep(ok) ==
    /\ server.phase = "sweep"
    /\ deactivateOldSuppliers(ok, [server EXCEPT !.phase = "listening", !.timer = TRUE])
    /\ UNCHANGED <<now, nextUser, payments, nextPayment, supply, nextSupply, inventory, production, proc, ledger, password_resets>>

\* the setInterval callback, every ONE_DAY_MS: the sweep inside its own try/catch
timer_tick(ok) ==
    /\ server.phase = "listening"
    /\ server.timer
    /\ deactivateOldSuppliers(ok, server)
    /\ UNCHANGED <<now, nextUser, payments, nextPayment, supply, nextSupply, inventory, production, proc, ledger, password_resets>>

(* --------------------------- payment reconciler ------------------------ *)

\* payments rows
ExistingPays(pay) == {i \in PayIds : pay[i].exists}

\* PaymentModel.createPayment: INSERT INTO payments; the foreign keys want the
\* supply record and the user to exist
createPayment(r, s, amount, status) ==
    /\ nextPayment <= MaxPay
    /\ payments' = [payments EXCEPT ![nextPayment] =
          [exists |-> TRUE, supply_record_id |-> r, supplier_id |-> s, amount |-> amount,
           payment_status |-> status, created_at |-> now]]
    /\ nextPayment' = nextPayment + 1

\* POST /direct: the payment is inserted as completed
direct_create(p, r, s, amount) ==
    /\ CanStart(p)
    /\ LET me == [IdleProc EXCEPT !.op = "direct", !.rec = r] IN
         IF ~(supply[r].exists /\ users[s].exists)
         THEN /\ proc' = [proc EXCEPT ![p] = [me EXCEPT !.pc = "done", !.res = "Failed"]]
              /\ UNCHANGED <<payments, nextPayment, password_resets>>
         ELSE /\ createPayment(r, s, amount, "completed")
              /\ proc' = [proc EXCEPT ![p] = [me EXCEPT !.pc = "dp_mark", !.id = nextPayment]]
    /\ UNCHANGED <<now, users, nextUser, supply, nextSupply, inventory, production, server, ledger, password_resets>>

\* POST /direct: UPDATE supply_records SET payment_status = 'paid' WHERE id = ?
direct_mark(p) ==
    /\ proc[p].pc = "dp_mark"
    /\ supply' = IF supply[proc[p].rec].exists
                 THEN [supply EXCEPT ![proc[p].rec].payment_status = "paid"]
                 ELSE supply
    /\ proc' = [Done(p, "ok") EXCEPT ![p].rec = proc[p].rec]
    /\ UNCHANGED <<now, users, nextUser, payments, nextPayment, nextSupply, inventory, production, server, ledger, password_resets>>

\* POST /gateway by the authenticated user u: the payment is inserted as pending
\* with supplier_id: req.user.id
gateway(p, r, u, amount) ==
    /\ CanStart(p)
    /\ LET me == [IdleProc EXCEPT !.op = "gateway", !.rec = r, !.pc = "done"] IN
         IF ~(supply[r].exists /\ users[u].exists)
         THEN /\ proc' = [proc EXCEPT ![p] = [me EXCEPT !.res = "Failed"]]
              /\ UNCHANGED <<payments, nextPayment, password_resets>>
         ELSE /\ createPayment(r, u, amount, "pending")
              /\ proc' = [proc EXCEPT ![p] = [me EXCEPT !.res = "ok", !.id = nextPayment]]
    /\ UNCHANGED <<now, users, nextUser, supply, nextSupply, inventory, production, server, ledger, password_resets>>

\* POST /callback/success with status completed: findPaymentByPaymentId
callback_find(p, pay) ==
    /\ CanStart(p)
    /\ LET me == [IdleProc EXCEPT !.op = "callback", !.id = pay] IN
         IF ~payments[pay].exists
         THEN proc' = [proc EXCEPT ![p] = [me EXCEPT !.pc = "done", !.res = "ok"]]
         ELSE proc' = [proc EXCEPT ![p] = [me EXCEPT !.pc = "cb_update",
                                                     !.rec = payments[pay].supply_record_id]]
    /\ UNCHANGED <<now, users, nextUser, payments, nextPayment, supply, nextSupply, inventory, production, server, ledger, password_resets>>

\* PaymentModel.updatePaymentByPaymentId: payment_status = 'completed'
callback_update(p) ==
    /\ proc[p].pc = "cb_update"
    /\ IF ~payments[proc[p].id].exists
         THEN /\ proc' = [Done(p, "Failed") EXCEPT ![p].rec = proc[p].rec]
              /\ UNCHANGED payments
         ELSE /\ payments' = [payments EXCEPT ![proc[p].id].payment_status = "completed"]
              /\ proc' = [proc EXCEPT ![p].pc = "cb_mark"]
    /\ UNCHANGED <<now, users, nextUser, nextPayment, supply, nextSupply, inventory, production, server, ledger, password_resets>>

\* POST /callback/success: UPDATE supply_records SET payment_status = 'paid' WHERE id = ?
callback_mark(p) ==
    /\ proc[p].pc = "cb_mark"
    /\ supply' = IF supply[proc[p].rec].exists
                 THEN [supply EXCEPT ![proc[p].rec].payment_status = "paid"]
                 ELSE supply
    /\ proc' = [Done(p, "ok") EXCEPT ![p].rec = proc[p].rec]
    /\ UNCHANGED <<now, users, nextUser, payments, nextPayment, nextSupply, inventory, production, server, ledger, password_resets>>

\* PUT /supply-records/:id/payment: SupplierController.updatePaymentStatus and
\* SupplierModel.updatePaymentStatus
updatePaymentStatus(p, id, payment_status) ==
    /\ CanStart(p)
    /\ LET me == [IdleProc EXCEPT !.op = "updatePaymentStatus", !.id = id, !.pc = "done"] IN
         IF ~supply[id].exists
         THEN /\ proc' = [proc EXCEPT ![p] = [me EXCEPT !.res = "Failed"]]
              /\ UNCHANGED supply
         ELSE /\ supply' = [supply EXCEPT ![id].payment_status = payment_status]
              /\ proc' = [proc EXCEPT ![p] = [me EXCEPT !.res = "ok"]]
    /\ UNCHANGED <<now, users, nextUser, payments, nextPayment, nextSupply, inventory, production, server, ledger, password_resets>>

\* DELETE /users/:id: db.getUserById, 404 when absent
deleteUser_find(p, u) ==
    /\ CanStart(p)
    /\ LET me == [IdleProc EXCEPT !.op = "deleteUser", !.id = u] IN
         IF ~users[u].exists
         THEN proc' = [proc EXCEPT ![p] = [me EXCEPT !.pc = "done", !.res = "NotFound"]]
         ELSE proc' = [proc EXCEPT ![p] = [me EXCEPT !.pc = "du_delete"]]
    /\ UNCHANGED <<now, users, nextUser, payments, nextPayment, supply, nextSupply, inventory, production, server, ledger, password_resets>>

\* db.deleteUser: DELETE FROM users WHERE id = ?, with the ON DELETE CASCADE of
\* supply_records.supplier_id, payments.supplier_id and payments.supply_record_id
deleteUser_delete(p) ==
    /\ proc[p].pc = "du_delete"
    /\ LET u == proc[p].id
           gone == {i \in RecIds : supply[i].exists /\ supply[i].supplier_id = u}
       IN /\ users' = [users EXCEPT ![u] = NoUser]
          /\ supply' = [i \in RecIds |-> IF i \in gone THEN NoRow ELSE supply[i]]
          /\ payments' = [i \in PayIds |->
                IF payments[i].exists
                   /\ (payments[i].supplier_id = u \/ payments[i].supply_record_id \in gone)
                THEN NoPayment ELSE payments[i]]
    /\ proc' = Done(p, "ok")
    /\ UNCHANGED <<now, nextUser, nextPayment, nextSupply, inventory, production, server, ledger, password_resets>>

\* a row of pQuery, tagged r.source = "payment"
paymentEntry(i) ==
    [source |-> "payment", id |-> i,
     supply_record_id |-> payments[i].supply_record_id,
     amount |-> payments[i].amount,
     payment_status |-> payments[i].payment_status,
     created_at |-> payments[i].created_at]

\* a row of srQuery, tagged r.source = "supply_record": NULL as id,
\* sr.total_payment as amount, CASE WHEN sr.payment_status = 'paid' THEN
\* 'completed' ELSE 'pending' END as payment_status
supplyEntry(i) ==
    [source |-> "supply_record", id |-> 0,
     supply_record_id |-> i,
     amount |-> supply[i].total_payment,
     payment_status |-> IF supply[i].payment_status = "paid" THEN "completed" ELSE "pending",
     created_at |-> supply[i].created_at]

\* the filter without its NOT EXISTS
srWhere_anyPayment(i) ==
    supply[i].payment_status # "paid"

\* WHERE sr.payment_status != 'paid'
\*   AND NOT EXISTS (SELECT 1 FROM payments p2 WHERE p2.supply_record_id = sr.id)
srWhere(i) ==
    /\ supply[i].payment_status # "paid"
    /\ ~\E j \in ExistingPays(payments) : payments[j].supply_record_id = i

\* the sequences that hold each entry of S once, latest created_at first
\* (ORDER BY created_at DESC; rows of equal created_at come in any order)
OrderedDesc(S) ==
    {s \in PermSeqs(S) :
        \A i \in 1..(Len(s) - 1) : s[i].created_at >= s[i + 1].created_at}

RECURSIVE InsertDesc(_, _)
\* x placed behind every entry that is not older than it
InsertDesc(x, s) ==
    IF s = <<>> THEN <<x>>
    ELSE IF Head(s).created_at >= x.created_at THEN <<Head(s)>> \o InsertDesc(x, Tail(s))
    ELSE <<x>> \o s

RECURSIVE SortDesc(_)
\* combined.sort((a, b) => new Date(b.created_at) - new Date(a.created_at)), a
\* stable sort
SortDesc(s) ==
    IF s = <<>> THEN <<>>
    ELSE InsertDesc(s[Len(s)], SortDesc(SubSeq(s, 1, Len(s) - 1)))

\* PaymentModel.findAllPayments without filters: pQuery
findAllPayments_pQuery(p) ==
    /\ CanStart(p)
    /\ \E pRows \in OrderedDesc({paymentEntry(i) : i \in ExistingPays(payments)}) :
          proc' = [proc EXCEPT ![p] = [IdleProc EXCEPT !.op = "findAllPayments",
                                                       !.pc = "fp_sr", !.snap = pRows]]
    /\ UNCHANGED <<now, users, nextUser, payments, nextPayment, supply, nextSupply, inventory, production, server, ledger, password_resets>>

\* PaymentModel.findAllPayments without filters: srQuery, then the two results
\* are combined and sorted
findAllPayments_srQuery(p) ==
    /\ proc[p].pc = "fp_sr"
    /\ \E srRows \in OrderedDesc({supplyEntry(i) : i \in {j \in ExistingRecs(supply) : srWhere(j)}}) :
          proc' = [Done(p, "ok") EXCEPT ![p].out = SortDesc(proc[p].snap \o srRows)]
    /\ UNCHANGED <<now, users, nextUser, payments, nextPayment, supply, nextSupply, inventory, production, server, ledger, password_resets>>

\* pQuery of getPaymentStatistics with no filter:
\* SUM(CASE WHEN payment_status = status THEN amount ELSE 0 END) FROM payments
pStats(status) ==
    SumOver({i \in ExistingPays(payments) : payments[i].payment_status = status},
            [i \in PayIds |-> payments[i].amount])

\* srQuery of getPaymentStatistics with no filter:
\* SUM(CASE WHEN sr.payment_status = 'paid' THEN sr.total_payment ELSE 0 END) as
\* sr_completed_amount, and the same with != 'paid' as sr_pending_amount
srStats(paid) ==
    SumOver({i \in ExistingRecs(supply) : (supply[i].payment_status = "paid") = paid},
            [i \in RecIds |-> supply[i].total_payment])

\* pQuery of getPaymentStatistics with no filter:
\* COUNT(CASE WHEN payment_status = 'pending' THEN 1 END) as pending_count FROM payments
pStats_pending_count ==
    Cardinality({i \in ExistingPays(payments) : payments[i].payment_status = "pending"})

\* srQuery of getPaymentStatistics with no filter:
\* COUNT(CASE WHEN sr.payment_status != 'paid' THEN 1 END) as sr_pending_count
srStats_sr_pending_count ==
    Cardinality({i \in ExistingRecs(supply) : supply[i].payment_status # "paid"})

\* PaymentModel.getPaymentStatistics: the combined totals it returns;
\* pendingCount = num(pStats.pending_count) + num(srStats.sr_pending_count)
getPaymentStatistics ==
    [total_completed_amount |-> pStats("completed") + srStats(TRUE),
     total_pending_amount   |-> pStats("pending") + srStats(FALSE),
     total_failed_amount    |-> pStats("failed"),
     pending_count          |-> pStats_pending_count + srStats_sr_pending_count]

\* PaymentModel.findAllPayments with no filter and no limit, its two queries run
\* on one state of the store: the entries it returns
findAllPayments ==
    {paymentEntry(i) : i \in ExistingPays(payments)}
       \cup {supplyEntry(i) : i \in {j \in ExistingRecs(supply) : srWhere(j)}}

(* ---------------------------- password reset --------------------------- *)

\* String(Math.floor(100000 + Math.random() * 900000)): the codes drawn
OtpCodes == {0, 1}

\* password_resets rows kept
MaxOtps == 2

\* POST /send-otp up to its store call: db.getUserByEmail; an unknown email gets
\* the generic answer
sendOtp_find(p, u) ==
    /\ CanStart(p)
    /\ Len(password_resets) < MaxOtps
    /\ LET me == [IdleProc EXCEPT !.op = "sendOtp", !.id = u]
       IN proc' = [proc EXCEPT ![p] =
             IF ~users[u].exists THEN [me EXCEPT !.pc = "done", !.res = "generic"]
             ELSE [me EXCEPT !.pc = "so_insert"]]
    /\ UNCHANGED <<now, users, nextUser, payments, nextPayment, supply, nextSupply, inventory, production, server, ledger, password_resets>>

\* db.createPasswordReset(user.id, otp, expiresAt) with
\* expiresAt = new Date(Date.now() + 10 * 60 * 1000); used DEFAULT FALSE,
\* created_at DEFAULT CURRENT_TIMESTAMP
sendOtp_insert(p, otp) ==
    /\ proc[p].pc = "so_insert"
    /\ Len(password_resets) < MaxOtps
    /\ password_resets' = Append(password_resets,
          [user_id |-> proc[p].id, otp_code |-> otp, expires_at |-> now + TenMinutes,
           used |-> FALSE, created_at |-> now])
    /\ proc' = [Done(p, "generic") EXCEPT ![p].q = otp]
    /\ UNCHANGED <<now, users, nextUser, payments, nextPayment, supply, nextSupply, inventory, production, server, ledger>>

\* db.getValidPasswordReset: SELECT * FROM password_resets WHERE user_id = ? AND
\* otp_code = ? AND used = FALSE AND expires_at > NOW() ORDER BY created_at DESC
\* LIMIT 1: the rows it may return (rows of equal created_at come in either order)
getValidPasswordReset(userId, otpCode) ==
    LET valid == {i \in 1..Len(password_resets) :
                    /\ password_resets[i].user_id = userId
                    /\ password_resets[i].otp_code = otpCode
                    /\ ~password_resets[i].used
                    /\ password_resets[i].expires_at > now}
    IN {i \in valid : \A j \in valid :
                         password_resets[j].created_at <= password_resets[i].created_at}

\* POST /reset-password up to its second store call: db.getUserByEmail; an
\* unknown email gets 400 "Invalid email or OTP"
resetPassword_find(p, u, otp) ==
    /\ CanStart(p)
    /\ LET me == [IdleProc EXCEPT !.op = "resetPassword", !.id = u, !.q = otp]
       IN proc' = [proc EXCEPT ![p] =
             IF ~users[u].exists THEN [me EXCEPT !.pc = "done", !.res = "InvalidEmail"]
             ELSE [me EXCEPT !.pc = "rp_valid", !.user = users[u]]]
    /\ UNCHANGED <<now, users, nextUser, payments, nextPayment, supply, nextSupply, inventory, production, server, ledger, password_resets>>

\* const record = await db.getValidPasswordReset(user.id, otp);
\* if (!record) 400 "Invalid or expired OTP"
resetPassword_valid(p) ==
    /\ proc[p].pc = "rp_valid"
    /\ LET found == getValidPasswordReset(proc[p].id, proc[p].q)
       IN IF found = {}
          THEN proc' = Done(p, "InvalidOtp")
          ELSE \E record \in found :
                  proc' = [proc EXCEPT ![p].pc = "rp_update", ![p].rec = record]
    /\ UNCHANGED <<now, users, nextUser, payments, nextPayment, supply, nextSupply, inventory, production, server, ledger, password_resets>>

\* bcrypt.hash, then db.updateUser(user.id, { ...user, password: hashed }):
\* UPDATE users SET name, email, password, role, status, phone WHERE id = ?,
\* every column from the row read at the start of the request
resetPassword_update(p) ==
    /\ proc[p].pc = "rp_update"
    /\ users' = IF users[proc[p].id].exists
                THEN [users EXCEPT ![proc[p].id].role = proc[p].user.role,
                                   ![proc[p].id].status = proc[p].user.status]
                ELSE users
    /\ proc' = [proc EXCEPT ![p].pc = "rp_mark"]
    /\ UNCHANGED <<now, nextUser, payments, nextPayment, supply, nextSupply, inventory, production, server, ledger, password_resets>>

\* db.markPasswordResetUsed(record.id): UPDATE password_resets SET used = TRUE
\* WHERE id = ?; then "Password has been reset successfully"
resetPassword_mark(p) ==
    /\ proc[p].pc = "rp_mark"
    /\ password_resets' = [password_resets EXCEPT ![proc[p].rec].used = TRUE]
    /\ proc' = [Done(p, "ok") EXCEPT ![p].rec = proc[p].rec]
    /\ UNCHANGED <<now, users, nextUser, payments, nextPayment, supply, nextSupply, inventory, production, server, ledger>>

(* --------------------------- specifications ---------------------------- *)

\* the store with one active supplier and no records
InitStock ==
    /\ now = 0
    /\ users = [u \in UserIds |->
          IF u = 1 THEN [exists |-> TRUE, role |-> "supplier", status |-> "active",
                         supplier_id |-> formatSupplierId(1), created_at |-> 0]
          ELSE NoUser]
    /\ nextUser = 2
    /\ payments = [i \in PayIds |-> NoPayment]
    /\ nextPayment = 1
    /\ supply = [i \in RecIds |-> NoRow]
    /\ nextSupply = 1
    /\ inventory = <<>>
    /\ production = <<>>
    /\ server = ServerUp
    /\ proc = [p \in Procs |-> IdleProc]
    /\ ledger = [supplied |-> 0, reported |-> 0, issued |-> {}, stocked |-> 0]
    /\ password_resets = <<>>

\* supply and inventory requests, interleaved at every store call
NextStock ==
    \/ \E p \in Procs, q \in 0..MaxQty : createSupplyRecord(p, 1, q, 1, "unpaid")
    \/ \E p \in Procs, q \in 0..MaxQty : createInventory_precheck(p, q)
    \/ \E p \in Procs, randomSuffix \in Suffixes : createInventory_insert(p, randomSuffix)
    \/ \E p \in Procs : createInventory_read(p)
    \/ \E p \in Procs : createInventory_deduct(p)
    \/ \E p \in Procs : createInventory_respond(p)
    \/ createTables

SpecStock == InitStock /\ [][NextStock]_vars

\* no request is in flight
Quiet == \A p \in Procs : Free(p)

\* supply taken into inventory lots by one request at a time, and lots used up
\* by concurrent production requests
NextProduction ==
    \/ Quiet /\ \E p \in Procs : createSupplyRecord(p, 1, MaxQty, 1, "unpaid")
    \/ Quiet /\ createTables
    \/ Quiet /\ \E p \in Procs, q \in 1..MaxQty : createInventory_precheck(p, q)
    \/ \E p \in Procs, randomSuffix \in Suffixes : createInventory_insert(p, randomSuffix)
    \/ \E p \in Procs : createInventory_read(p)
    \/ \E p \in Procs : createInventory_deduct(p)
    \/ \E p \in Procs : createInventory_respond(p)
    \/ \E p \in Procs, q \in 0..(MaxQty + 1) : createProduction_precheck(p, q)
    \/ \E p \in Procs : createProduction_insert(p)
    \/ \E p \in Procs : createProduction_deduct(p)
    \/ \E p \in Procs : createProduction_respond(p)

SpecProduction == InitStock /\ [][NextProduction]_vars

\* supply records created by concurrent requests, within one minute and
\* across two
NextSupplyId ==
    \/ \E p \in Procs, s \in UserIds, q \in 0..MaxQty : createSupplyRecord_find(p, s, q, 1)
    \/ \E p \in Procs : generateSupplyId_base(p)
    \/ \E p \in Procs : generateSupplyId_exists(p)
    \/ \E p \in Procs : createSupplyRecord_insert(p)
    \/ Tick(MinuteTimes)

SpecSupplyId == InitStock /\ [][NextSupplyId]_vars

\* quantities and prices a request body can carry: negative, zero and positive
Amounts == (0 - 1)..MaxQty

\* supply records created and edited with any quantity and price, and taken
\* into inventory, one request at a time
NextAmounts ==
    \/ Quiet /\ \E p \in Procs, q \in Amounts, pr \in (0 - 1)..1 :
          createSupplyRecord(p, 1, q, pr, "unpaid")
    \/ Quiet /\ \E p \in Procs, id \in RecIds, q \in Amounts \ {0}, pr \in {0 - 1, 1} :
          updateSupplyRecord_find(p, id, {"quantity", "unit_price"}, q, pr, "none")
    \/ \E p \in Procs : updateSupplyRecord_gate(p)
    \/ \E p \in Procs : updateSupplyRecord_write(p)
    \/ Quiet /\ \E p \in Procs, q \in 1..MaxQty : createInventory_precheck(p, q)
    \/ \E p \in Procs, randomSuffix \in Suffixes : createInventory_insert(p, randomSuffix)
    \/ \E p \in Procs : createInventory_read(p)
    \/ \E p \in Procs : createInventory_deduct(p)
    \/ \E p \in Procs : createInventory_respond(p)

SpecAmounts == InitStock /\ [][NextAmounts]_vars

\* supply recorded, taken into inventory lots and used up by production, one
\* request at a time, while the clock runs
NextPipeline ==
    \/ Quiet /\ \E p \in Procs, q \in 1..MaxQty : createSupplyRecord(p, 1, q, 1, "unpaid")
    \/ Quiet /\ \E p \in Procs, q \in 1..MaxQty : createInventory_precheck(p, q)
    \/ \E p \in Procs, randomSuffix \in Suffixes : createInventory_insert(p, randomSuffix)
    \/ \E p \in Procs : createInventory_read(p)
    \/ \E p \in Procs : createInventory_deduct(p)
    \/ \E p \in Procs : createInventory_respond(p)
    \/ Quiet /\ \E p \in Procs, q \in 1..MaxQty : createProduction_precheck(p, q)
    \/ \E p \in Procs : createProduction_insert(p)
    \/ \E p \in Procs : createProduction_deduct(p)
    \/ \E p \in Procs : createProduction_respond(p)
    \/ Quiet /\ Tick(MinuteTimes)

SpecPipeline == InitStock /\ [][NextPipeline]_vars

\* supply records edited by concurrent requests that name any of the fields
NextTotals ==
    \/ Quiet /\ \E p \in Procs : createSupplyRecord(p, 1, 1, 1, "unpaid")
    \/ \E p \in Procs, id \in RecIds, keys \in SUBSET {"quantity", "unit_price"},
          q \in {0, MaxQty}, pr \in {MaxQty} :
          updateSupplyRecord_find(p, id, keys, q, pr, "none")
    \/ \E p \in Procs : updateSupplyRecord_gate(p)
    \/ \E p \in Procs : updateSupplyRecord_write(p)

SpecTotals == InitStock /\ [][NextTotals]_vars

\* lots created and edited through the manager routes while production runs
NextLots ==
    \/ Quiet /\ \E p \in Procs : createSupplyRecord(p, 1, MaxQty, 1, "unpaid")
    \/ Quiet /\ \E p \in Procs, rawQty \in RawQuantities : postInventory(p, rawQty)
    \/ \E p \in Procs, randomSuffix \in Suffixes : createInventory_insert(p, randomSuffix)
    \/ \E p \in Procs : createInventory_read(p)
    \/ \E p \in Procs : createInventory_deduct(p)
    \/ \E p \in Procs : createInventory_respond(p)
    \/ \E p \in Procs, rawQty \in RawQuantities : putInventory(p, 1, rawQty)
    \/ \E p \in Procs : updateInventory_find(p)
    \/ \E p \in Procs : updateInventory_write(p)
    \/ \E p \in Procs : createProduction_precheck(p, MaxQty)
    \/ \E p \in Procs : createProduction_insert(p)
    \/ \E p \in Procs : createProduction_deduct(p)
    \/ \E p \in Procs : createProduction_respond(p)
    \/ Quiet /\ Tick({EditWindowMs + 1})

SpecLots == InitStock /\ [][NextLots]_vars

\* OTPs issued and redeemed by concurrent requests while time passes
NextOtp ==
    \/ \E p \in Procs, u \in UserIds : sendOtp_find(p, u)
    \/ \E p \in Procs, otp \in OtpCodes : sendOtp_insert(p, otp)
    \/ \E p \in Procs, u \in UserIds, otp \in OtpCodes : resetPassword_find(p, u, otp)
    \/ \E p \in Procs : resetPassword_valid(p)
    \/ \E p \in Procs : resetPassword_update(p)
    \/ \E p \in Procs : resetPassword_mark(p)
    \/ Tick(OtpTimes)

SpecOtp == InitStock /\ [][NextOtp]_vars

\* supply records created, edited and deleted while the clock runs
NextEdit ==
    \/ \E p \in Procs, q \in 1..MaxQty : createSupplyRecord(p, 1, q, 1, "unpaid")
    \/ \E p \in Procs, id \in RecIds, q \in 1..MaxQty :
          updateSupplyRecord_find(p, id, {"quantity", "unit_price"}, q, 1, "none")
    \/ \E p \in Procs : updateSupplyRecord_gate(p)
    \/ \E p \in Procs : updateSupplyRecord_write(p)
    \/ \E p \in Procs, id \in RecIds : deleteSupplyRecord_find(p, id)
    \/ \E p \in Procs : deleteSupplyRecord_gate(p)
    \/ \E p \in Procs : deleteSupplyRecord_write(p)
    \/ Tick(TimePoints)

SpecEdit == InitStock /\ [][NextEdit]_vars

\* the store with no users and no records
InitDirectory ==
    /\ now = 0
    /\ users = [u \in UserIds |-> NoUser]
    /\ nextUser = 1
    /\ payments = [i \in PayIds |-> NoPayment]
    /\ nextPayment = 1
    /\ supply = [i \in RecIds |-> NoRow]
    /\ nextSupply = 1
    /\ inventory = <<>>
    /\ production = <<>>
    /\ server = ServerUp
    /\ proc = [p \in Procs |-> IdleProc]
    /\ ledger = [supplied |-> 0, reported |-> 0, issued |-> {}, stocked |-> 0]
    /\ password_resets = <<>>

\* suppliers created, listed and renumbered by concurrent requests
NextDirectory ==
    \/ \E p \in Procs, role \in {"supplier", "staff"} : createUser(p, role)
    \/ \E p \in Procs : postSuppliers_start(p)
    \/ \E p \in Procs : generateSupplierId_scan(p)
    \/ \E p \in Procs : generateSupplierId_exists(p)
    \/ \E p \in Procs : postSuppliers_insert(p)
    \/ \E p \in Procs : findAll_select(p)
    \/ \E p \in Procs : findAll_update(p)
    \/ \E p \in Procs : resetAllSupplierIds_select(p)
    \/ \E p \in Procs : resetAllSupplierIds_update(p)

SpecDirectory == InitDirectory /\ [][NextDirectory]_vars

\* suppliers created, listed, renumbered, backfilled and deleted, one request
\* at a time
NextIds ==
    \/ Quiet /\ \E p \in Procs, role \in {"supplier", "staff"} : createUser(p, role)
    \/ Quiet /\ \E p \in Procs : postSuppliers_start(p)
    \/ \E p \in Procs : generateSupplierId_scan(p)
    \/ \E p \in Procs : generateSupplierId_exists(p)
    \/ \E p \in Procs : postSuppliers_insert(p)
    \/ Quiet /\ \E p \in Procs : findAll_select(p)
    \/ \E p \in Procs : findAll_update(p)
    \/ Quiet /\ \E p \in Procs : resetAllSupplierIds_select(p)
    \/ \E p \in Procs : resetAllSupplierIds_update(p)
    \/ Quiet /\ \E p \in Procs : updateSupplierIds_select(p)
    \/ \E p \in Procs : updateSupplierIds_update(p)
    \/ Quiet /\ \E p \in Procs, u \in UserIds : deleteUser_find(p, u)
    \/ \E p \in Procs : deleteUser_delete(p)

SpecIds == InitDirectory /\ [][NextIds]_vars

\* the store with a supplier and a member of staff
InitPay ==
    /\ now = 0
    /\ users = [u \in UserIds |->
          IF u = 1 THEN [exists |-> TRUE, role |-> "supplier", status |-> "active",
                         supplier_id |-> formatSupplierId(1), created_at |-> 0]
          ELSE [exists |-> TRUE, role |-> "staff", status |-> "active",
                supplier_id |-> NullId, created_at |-> 0]]
    /\ nextUser = MaxUsers + 1
    /\ payments = [i \in PayIds |-> NoPayment]
    /\ nextPayment = 1
    /\ supply = [i \in RecIds |-> NoRow]
    /\ nextSupply = 1
    /\ inventory = <<>>
    /\ production = <<>>
    /\ server = ServerUp
    /\ proc = [p \in Procs |-> IdleProc]
    /\ ledger = [supplied |-> 0, reported |-> 0, issued |-> {}, stocked |-> 0]
    /\ password_resets = <<>>

\* supply records paid directly and through the gateway, listed, and users
\* deleted, by concurrent requests
NextPay ==
    \/ \E p \in Procs, pr \in 1..MaxQty, st \in {"unpaid", "paid"} :
          createSupplyRecord(p, 1, 1, pr, st)
    \/ \E p \in Procs, r \in RecIds, s \in UserIds : direct_create(p, r, s, 1)
    \/ \E p \in Procs : direct_mark(p)
    \/ \E p \in Procs, r \in RecIds, u \in UserIds \ {1} : gateway(p, r, u, 1)
    \/ \E p \in Procs, pay \in PayIds : callback_find(p, pay)
    \/ \E p \in Procs : callback_update(p)
    \/ \E p \in Procs : callback_mark(p)
    \/ \E p \in Procs, r \in RecIds, st \in {"unpaid", "paid"} : updatePaymentStatus(p, r, st)
    \/ \E p \in Procs, u \in UserIds : deleteUser_find(p, u)
    \/ \E p \in Procs : deleteUser_delete(p)
    \/ \E p \in Procs : findAllPayments_pQuery(p)
    \/ \E p \in Procs : findAllPayments_srQuery(p)

SpecPay == InitPay /\ [][NextPay]_vars

\* the store with no users, before the server is started
InitSweep ==
    /\ now = 0
    /\ users = [u \in UserIds |-> NoUser]
    /\ nextUser = 1
    /\ payments = [i \in PayIds |-> NoPayment]
    /\ nextPayment = 1
    /\ supply = [i \in RecIds |-> NoRow]
    /\ nextSupply = 1
    /\ inventory = <<>>
    /\ production = <<>>
    /\ server = [phase |-> "init", timer |-> FALSE, last |-> "none", affected |-> 0, turn |-> 0]
    /\ proc = [p \in Procs |-> IdleProc]
    /\ ledger = [supplied |-> 0, reported |-> 0, issued |-> {}, stocked |-> 0]
    /\ password_resets = <<>>

\* a request is served once the server listens
Listening == server.phase = "listening"

\* users and supply records come and go while the months pass and the server
\* sweeps at its start and on its timer
NextSweep ==
    \/ \E ok \in BOOLEAN : startServer_init(ok)
    \/ \E ok \in BOOLEAN : startServer_sweep(ok)
    \/ \E ok \in BOOLEAN : timer_tick(ok)
    \/ restart
    \/ Listening /\ \E p \in Procs, role \in {"supplier", "staff"} : createUser(p, role)
    \/ Listening /\ \E p \in Procs, u \in UserIds, st \in {"active", "pending"} :
                      updateUserStatus(p, u, st)
    \/ Listening /\ \E p \in Procs, u \in UserIds, d \in SupplyDates :
                      createSupplyRecordOn(p, u, 1, 1, "unpaid", d)
    \/ Tick(SweepTimes)

SpecSweep == InitSweep /\ [][NextSweep]_vars

\* a run of the sweep that succeeds
SweepSucceeds == startServer_sweep(TRUE) \/ timer_tick(TRUE)

\* the same, where start-up sooner or later gets past initializeDatabase and
\* past its sweep, and where runs of the sweep that succeed keep coming as long
\* as runs keep being due
SpecSweepLive ==
    /\ InitSweep
    /\ [][NextSweep]_vars
    /\ WF_vars(\E ok \in BOOLEAN : startServer_init(ok))
    /\ WF_vars(\E ok \in BOOLEAN : startServer_sweep(ok))
    /\ SF_vars(SweepSucceeds)

\* the same requests, run one at a time: a request starts only when no other is
\* in flight
NextStockSeq ==
    \/ Quiet /\ \E p \in Procs, q \in 0..MaxQty : createSupplyRecord(p, 1, q, 1, "unpaid")
    \/ Quiet /\ \E p \in Procs, q \in 0..MaxQty : createInventory_precheck(p, q)
    \/ \E p \in Procs, randomSuffix \in Suffixes : createInventory_insert(p, randomSuffix)
    \/ \E p \in Procs : createInventory_read(p)
    \/ \E p \in Procs : createInventory_deduct(p)
    \/ \E p \in Procs : createInventory_respond(p)
    \/ Quiet /\ createTables

SpecStockSeq == InitStock /\ [][NextStockSeq]_vars

(* ------------------------------- claims -------------------------------- *)

\* C1: under any interleaving of createInventory requests, the quantity placed
\* into inventory lots and the quantity the requests report as deducted never
\* exceed the quantity that was supplied.
C1_NoOverdraw ==
    /\ totalInventory(inventory) <= ledger.supplied
    /\ ledger.reported <= ledger.supplied

\* C2: every supply record's remaining_quantity_kg lies between 0 and its
\* quantity_kg.
C2_RemainingWithinQuantity ==
    \A i \in ExistingRecs(supply) :
        /\ 0 <= supply[i].remaining_quantity_kg
        /\ supply[i].remaining_quantity_kg <= supply[i].quantity_kg

\* C3: a createInventory that answers "created" for amount A has taken A from
\* the supply records: its decrements sum to A.
C3_LotFullyDeducted ==
    \A p \in Procs :
        (proc[p].pc = "done" /\ proc[p].op = "createInventory" /\ proc[p].res = "created")
            => proc[p].q - proc[p].rem = proc[p].q

\* C9: run one at a time, a createInventory that asks for more than the total
\* available is rejected with InsufficientSupply and changes neither supply nor
\* inventory; one that succeeds for q against a total T leaves a total of T - q.
C9_SequentialDeduction ==
    [][\A p \in Procs :
        /\ ( /\ Free(p)
             /\ proc'[p] # proc[p]
             /\ proc'[p].op = "createInventory"
             /\ proc'[p].q > totalSupplyAvailable(supply) )
           => ( /\ proc'[p].pc = "done"
                /\ proc'[p].res = "InsufficientSupply"
                /\ supply' = supply
                /\ inventory' = inventory )
        /\ ( /\ proc[p].pc = "ci_deduct"
             /\ proc'[p].pc = "done"
             /\ proc'[p].res = "created" )
           => totalSupplyAvailable(supply') = proc[p].total - proc[p].q
      ]_vars

\* C9 witness: after a lot was created and supply is left over, a request for
\* more than what is left has been rejected
C9_Witness ==
    \E p \in Procs :
        /\ proc[p].pc = "done"
        /\ proc[p].op = "createInventory"
        /\ proc[p].res = "InsufficientSupply"
        /\ Len(inventory) >= 1
        /\ totalSupplyAvailable(supply) >= 1
        /\ totalSupplyAvailable(supply) = ledger.supplied - totalInventory(inventory)


(* ------------------------------ the edit window ------------------------------ *)

\* slot p runs the window check of an update or delete on a record that exists
GateStep(p) ==
    /\ proc[p].pc \in {"us_gate", "ds_gate"}
    /\ proc'[p] # proc[p]
    /\ supply[proc[p].id].exists

\* time elapsed since the creation of the record slot p works on
Elapsed(p) == now - supply[proc[p].id].created_at

\* C5: an update or delete checked 14:59.999 after the record's creation is let
\* through to its write, and one checked 15:00.001 after it fails with
\* EditWindowExpired and leaves the record as it was
C5_WindowBoundary ==
    [][\A p \in Procs : GateStep(p) =>
          /\ Elapsed(p) = EditWindowMs - 1 => proc'[p].pc \in {"us_write", "ds_write"}
          /\ Elapsed(p) = EditWindowMs + 1 =>
                /\ proc'[p].pc = "done"
                /\ proc'[p].res = "EditWindowExpired"
                /\ supply' = supply]_vars

\* C6 as stated: an update or delete checked exactly 15:00.000 after the record's
\* creation is rejected as expired
C6_BoundaryRejected ==
    [][\A p \in Procs : (GateStep(p) /\ Elapsed(p) = EditWindowMs) =>
          /\ proc'[p].pc = "done"
          /\ proc'[p].res \in {"EditWindowExpired", "Failed"}]_vars

\* C6, amended: an update or delete checked exactly 15:00.000 after the record's
\* creation passes the window check and goes on to its write; the check rejects
\* only when more than 15 minutes have elapsed
C6_BoundaryAccepted ==
    [][\A p \in Procs : GateStep(p) =>
          /\ Elapsed(p) = EditWindowMs => proc'[p].pc \in {"us_write", "ds_write"}
          /\ Elapsed(p) > EditWindowMs => proc'[p].pc = "done" /\ proc'[p].res # "ok"]_vars

C6_Witness ==
    \E p \in Procs :
        /\ proc[p].pc = "done"
        /\ proc[p].op \in {"updateSupplyRecord", "deleteSupplyRecord"}
        /\ proc[p].diff = EditWindowMs
        /\ proc[p].res = "ok"


(* ------------------------------ supplier ids ------------------------------ *)

\* C7: no two suppliers hold the same supplier_id
C7_UniqueSupplierIds ==
    \A u1, u2 \in Suppliers(users) :
        (u1 # u2 /\ users[u1].supplier_id # NullId) =>
            users[u1].supplier_id # users[u2].supplier_id


(* ------------------------------ payments ------------------------------ *)

\* a listing has answered in slot p
Listed(p) == proc[p].pc = "done" /\ proc[p].op = "findAllPayments"

\* the positions of the entries of out that stand for supply record r with the given source
EntriesOf(out, r, source) ==
    {i \in 1..Len(out) : out[i].source = source /\ out[i].supply_record_id = r}

\* C4: in the output of a listing no supply record appears both as a payment
\* entry and as a synthetic entry with source supply_record
C4_NoDoubleListing ==
    \A p \in Procs : Listed(p) =>
        \A r \in RecIds :
            EntriesOf(proc[p].out, r, "payment") = {}
                \/ EntriesOf(proc[p].out, r, "supply_record") = {}

\* C8: a supply record is referenced by at most one payment with status completed
C8_OneCompletedPayment ==
    \A r \in RecIds :
        Cardinality({i \in ExistingPays(payments) :
                        /\ payments[i].supply_record_id = r
                        /\ payments[i].payment_status = "completed"}) <= 1

\* C10: the listing's second query returns, for every supply record that is not
\* paid and that no payment references, exactly one entry with source
\* supply_record, status pending and the record's total_payment as amount, and
\* no entry with source supply_record for any other supply record
C10_SyntheticPending ==
    [][\A p \in Procs : (proc[p].pc = "fp_sr" /\ Listed(p)') =>
          \A r \in RecIds :
             LET out == proc'[p].out
                 synthetic == EntriesOf(out, r, "supply_record")
                 owed == /\ supply[r].exists
                         /\ supply[r].payment_status # "paid"
                         /\ \A j \in PayIds : payments[j].exists =>
                                                payments[j].supply_record_id # r
             IN IF owed
                THEN /\ Cardinality(synthetic) = 1
                     /\ \A i \in synthetic : /\ out[i].payment_status = "pending"
                                             /\ out[i].amount = supply[r].total_payment
                ELSE synthetic = {}]_vars

\* a listing that returned a synthetic entry for one record and none for a
\* record that a payment references
C10_Witness ==
    \E p \in Procs : /\ Listed(p)
                     /\ \E r \in RecIds : EntriesOf(proc[p].out, r, "supply_record") # {}
                     /\ \E r \in RecIds : /\ EntriesOf(proc[p].out, r, "payment") # {}
                                          /\ supply[r].exists
                                          /\ supply[r].payment_status = "unpaid"
                                          /\ EntriesOf(proc[p].out, r, "supply_record") = {}


(* ------------------------------ the sweep ------------------------------ *)

\* the step is a run of the sweep, at startup or on the timer
SweepStep == server'.turn # server.turn /\ server.phase # "init"

Eligible(u) == sweepWhere(u)

\* C12: a run of the sweep that fails, at startup or on a tick, leaves the
\* server listening with its timer set; and a supplier that is eligible is in
\* the end set inactive, or stops being eligible, while the process lives
C12_SweepKeepsRunning ==
    /\ [][(SweepStep /\ server'.last = "failed") =>
             (server'.phase = "listening" /\ server'.timer)]_vars
    /\ [](server.phase = "listening" => server.timer)
    /\ \A u \in UserIds :
          (Eligible(u) /\ server.phase # "exited")
             ~> (~Eligible(u) \/ server.phase = "exited")

\* a run of the sweep has failed and has left an eligible supplier active, the
\* server listening and the timer set
C12_Witness ==
    /\ server.last = "failed"
    /\ server.phase = "listening"
    /\ server.timer
    /\ \E u \in UserIds : Eligible(u)


\* C13: the statistics add the pending payments to the unpaid supply records,
\* and the completed payments to the paid supply records that have no payment
\* row
C13_StatisticsMerge ==
    /\ getPaymentStatistics.total_pending_amount =
          SumOver({i \in ExistingPays(payments) : payments[i].payment_status = "pending"},
                  [i \in PayIds |-> payments[i].amount])
          + SumOver({i \in ExistingRecs(supply) : supply[i].payment_status = "unpaid"},
                    [i \in RecIds |-> supply[i].total_payment])
    /\ getPaymentStatistics.total_completed_amount =
          SumOver({i \in ExistingPays(payments) : payments[i].payment_status = "completed"},
                  [i \in PayIds |-> payments[i].amount])
          + SumOver({i \in ExistingRecs(supply) :
                        /\ supply[i].payment_status = "paid"
                        /\ ~\E j \in ExistingPays(payments) :
                               payments[j].supply_record_id = i},
                    [i \in RecIds |-> supply[i].total_payment])


(* ------------------------------ production ------------------------------ *)

\* process p starts a createProduction request in this step
ProductionStarts(p) ==
    /\ Free(p)
    /\ proc'[p] # proc[p]
    /\ proc'[p].op = "createProduction"

C15_ConcurrentModification ==
    \A p \in Procs :
       (/\ proc[p].pc = "done"
        /\ proc[p].op \in {"createInventory", "createProduction"}
        /\ proc[p].rem > 0)
          => proc[p].res = "ConcurrentModification"


(* ------------------------------ supply ids ------------------------------ *)

\* C16: a createSupplyRecord request with valid input and an existing supplier
\* ends with its record created, also when it overlaps another request in the
\* same minute, and no two records hold the same supply_id
C16_OverlappingCreations ==
    /\ \A p \in Procs :
          (/\ proc[p].pc = "done"
           /\ proc[p].op = "createSupplyRecord"
           /\ proc[p].res \notin {"ValidationError", "InvalidSupplier"})
             => proc[p].res = "created"
    /\ \A i, j \in ExistingRecs(supply) :
          supply[i].supply_id = supply[j].supply_id => i = j


(* ------------------------------ delete failures ------------------------------ *)

\* process p's deleteSupplyRecord request ends in failure in this step
DeleteFails(p) ==
    /\ proc'[p].op = "deleteSupplyRecord"
    /\ proc[p].pc \in {"idle", "done", "ds_gate", "ds_write"}
    /\ proc'[p] # proc[p]
    /\ proc'[p].pc = "done"
    /\ proc'[p].res # "ok"

\* C17: a deleteSupplyRecord that fails removes no record and tells why: NotFound
\* when the record is absent, EditWindowExpired when the record exists and its
\* window has expired
C17_DeleteFailureKinds ==
    [][\A p \in Procs :
         DeleteFails(p) =>
            /\ supply' = supply
            /\ proc'[p].res =
                  IF supply[proc'[p].id].exists THEN "EditWindowExpired" ELSE "NotFound"]_vars


(* ------------------------------ amounts ------------------------------ *)

\* C18: every supply record has a quantity_kg of at least 0 and a unit_price
\* above 0
C18_ValidAmounts ==
    \A i \in ExistingRecs(supply) :
       supply[i].quantity_kg >= 0 /\ supply[i].unit_price > 0


(* ------------------------------ issued ids ------------------------------ *)

\* generateSupplierId returns an id to process p in this step
Issues(p) ==
    /\ proc[p].pc = "gen_exists"
    /\ proc'[p].pc \in {"ps_insert", "fa_update"}

\* C19: every id generateSupplierId returns has a number above the number of
\* every id it has returned before
C19_StrictlyIncreasing ==
    [][\A p \in Procs :
         Issues(p) => \A n \in ledger.issued : proc'[p].supplierId.num > n]_vars

\* C20: every supplier_id a supplier holds is SUP followed by exactly 6 digits
C20_SixDigits ==
    \A u \in Suppliers(users) :
       users[u].supplier_id # NullId => matchesSupplierId(users[u].supplier_id)


(* ------------------------------ inventory ids ------------------------------ *)

\* the INSERT of process p's createInventory is rejected in this step because
\* its inventoryid is taken
InsertRejected(p) ==
    /\ proc[p].pc = "ci_insert"
    /\ proc'[p] # proc[p]
    /\ inventory' = inventory

\* C24: a createInventory whose INSERT is rejected for its inventoryid tries
\* again, and gives up with the unique inventory ID error only at the third
\* rejection; a rejected INSERT adds no lot and deducts nothing
C24_RetryOnCollision ==
    [][\A p \in Procs :
         InsertRejected(p) =>
            /\ supply' = supply
            /\ IF proc[p].attempts + 1 < maxRetries
               THEN proc'[p].pc = "ci_insert"
               ELSE proc'[p].pc = "done" /\ proc'[p].res = "UniqueIdFailed"]_vars


(* ------------------------------ the pipeline ------------------------------ *)

\* C21: run one at a time, a createInventory decrements a supply record only
\* when every older record is at 0, and a createProduction does the same with
\* the inventory lots; a record or lot left above 0 ends the run's deduction
C21_FifoOrder ==
    [][/\ \A r \in RecIds :
            (supply[r].exists /\ supply'[r].exists
             /\ supply'[r].quantity_kg < supply[r].quantity_kg) =>
               /\ \A o \in ExistingRecs(supply) :
                     supply[o].created_at < supply[r].created_at
                        => supply[o].quantity_kg = 0
               /\ supply'[r].quantity_kg > 0 =>
                     \A p \in Procs : proc[p].pc = "ci_deduct" => proc'[p].rem = 0
       /\ \A i \in 1..Len(inventory) :
            inventory'[i].quantity < inventory[i].quantity =>
               /\ \A o \in 1..Len(inventory) :
                     inventory[o].createdAt < inventory[i].createdAt
                        => inventory[o].quantity = 0
               /\ inventory'[i].quantity > 0 =>
                     \A p \in Procs : proc[p].pc = "cp_deduct" => proc'[p].rem = 0]_vars

\* a createInventory has emptied the older of two supply records and taken
\* part of the newer one
C21_Witness ==
    /\ \E p \in Procs :
          proc[p].pc = "done" /\ proc[p].op = "createInventory" /\ proc[p].res = "created"
    /\ \E o, r \in ExistingRecs(supply) :
          /\ supply[o].created_at < supply[r].created_at
          /\ supply[o].quantity_kg = 0
          /\ supply[r].quantity_kg > 0
          /\ supply[r].quantity_kg < supply[r].total_payment

\* C28: between requests that run one at a time, what the supply records, the
\* inventory lots and the production records hold adds up to what was supplied
C28_Conservation ==
    Quiet =>
       totalSupplyAvailable(supply) + totalInventory(inventory)
          + SumSeq([i \in 1..Len(production) |-> production[i].quantity])
       = ledger.supplied

\* supply, inventory and production all hold material and no request is running
C28_Witness ==
    /\ Quiet
    /\ totalSupplyAvailable(supply) > 0
    /\ totalInventory(inventory) > 0
    /\ production # <<>>


(* ------------------------------ gate and write ------------------------------ *)

\* the UPDATE or DELETE of process p's request changes the record in this step
WriteTakesEffect(p) ==
    /\ proc[p].pc \in {"us_write", "ds_write"}
    /\ proc'[p] # proc[p]
    /\ supply' # supply

\* C22: no update or delete of a supply record takes effect later than 15
\* minutes after the record's creation
C22_WriteWithinWindow ==
    [][\A p \in Procs :
         WriteTakesEffect(p) => now - supply[proc[p].id].created_at <= EditWindowMs]_vars


(* ------------------------------ concurrent production ------------------------------ *)

\* C23: under any interleaving of createProduction requests the production
\* records never hold more in total than was put into inventory lots
C23_NoDoubleConsumption ==
    SumSeq([i \in 1..Len(production) |-> production[i].quantity]) <= ledger.stocked


(* ------------------------------ totals ------------------------------ *)

\* the UPDATE of process p's update request succeeds in this step
UpdateSucceeds(p) ==
    /\ proc[p].pc = "us_write"
    /\ proc'[p].pc = "done"
    /\ proc'[p].res = "ok"

\* C25: after a successful update that names a quantity or a unit price the
\* record's total_payment is its quantity_kg times its unit_price
C25_TotalRecomputed ==
    [][\A p \in Procs :
         (UpdateSucceeds(p) /\ proc[p].keys \cap {"quantity", "unit_price"} # {}) =>
            supply'[proc[p].id].total_payment =
               supply'[proc[p].id].quantity_kg * supply'[proc[p].id].unit_price]_vars

\* C26: every inventory lot has quantity >= 0 in every reachable state, under
\* any interleaving of creating a lot, editing a lot and recording production
C26_LotsNonNegative ==
    \A i \in 1..Len(inventory) : inventory[i].quantity >= 0

\* a lot edited while a production was deducting, and a lot the deduction emptied
C26_Witness ==
    /\ \E p \in Procs : proc[p].op = "updateInventory" /\ proc[p].res = "ok"
    /\ \E p \in Procs : proc[p].op = "createProduction" /\ proc[p].res = "created"
    /\ \E i \in 1..Len(inventory) : inventory[i].quantity = 0

\* the reset-password request of slot p answers "Password has been reset successfully"
ResetSucceeds(p) == proc[p].pc = "rp_mark" /\ proc'[p].pc = "done" /\ proc'[p].res = "ok"

\* C27: an OTP is one-time and time-limited: a reset-password request never
\* succeeds with an OTP another request has already succeeded with, and never
\* more than 10 minutes after the OTP was issued
C27_OtpOneTime ==
    [][\A p \in Procs :
         ResetSucceeds(p) =>
            /\ ~password_resets[proc[p].rec].used
            /\ now <= password_resets[proc[p].rec].created_at + TenMinutes]_vars

\* C29: with no request in flight, no filters and no limit, the pending_count of getPaymentStatistics
\* equals the number of pending entries findAllPayments returns
C29_PendingCountAgrees ==
    Quiet =>
       getPaymentStatistics.pending_count =
          Cardinality({e \in findAllPayments : e.payment_status = "pending"})

\* C30: once the request that completed a Payment for a supply record has
\* returned, the record is paid and stays paid for as long as the completed
\* Payment exists, whatever later requests are made
C30_PaidStaysPaid ==
    Quiet =>
       \A j \in ExistingPays(payments) :
          (/\ payments[j].payment_status = "completed"
           /\ supply[payments[j].supply_record_id].exists)
             => supply[payments[j].supply_record_id].payment_status = "paid"

====
